---- MODULE Spec2Model ----
(***************************************************************************)
(* Cost-basis balance engine of CoinTaxman: one BalanceQueue (FIFO or LIFO *)
(* variant) with its fee buffer and missing-acquisition policy, driven by  *)
(* the queue's public methods and by the Sell branch of                    *)
(* Taxman._evaluate_taxation_GERMANY.                                      *)
(*                                                                         *)
(* Amounts are decimals in the source; the model uses integers (multiples  *)
(* of one smallest unit).  Timestamps are integers (seconds); the          *)
(* operation stream is sorted, every operation is one second later than    *)
(* the one before.  A raised exception aborts the run: after an outcome    *)
(* other than "ok" no further operation is processed.                      *)
(***************************************************************************)
EXTENDS Integers, Sequences, FiniteSets, TLC

\* Bounds of the model.
MaxChange == 4
MaxOps == 3

\* Time scale: relativedelta(years=1) counted in model seconds, and the
\* configured tax year (year = utc_time \div OneYear).
OneYear == 3
TAX_YEAR == 1

Platforms == {"binance", "kraken"}
AcquisitionPlatform == "binance"
Principles == {"FIFO", "LIFO"}
Handlings == {"ERROR", "ZERO_COST", "WARNING"}

\* op.fees of a Sell, seen from this queue: no fee in the queue's coin (0),
\* or one Fee of one unit in it.
SellFees == {0, 1}

VARIABLES
    queue,               \* BalanceQueue.queue: sequence of BalancedOperation
    buffer_fee,          \* BalanceQueue.buffer_fee
    principle,           \* config.PRINCIPLE: which BalanceQueue subclass
    handling,            \* BalanceQueue.missing_acquisition_handling
    missing_acquisition_handling,  \* the configured policy:
                         \* config.MISSING_ACQUISITION_HANDLING as Taxman
                         \* reads it, BalanceConfig.missing_acquisition_handling
    isFiat,              \* BalanceQueue.coin == config.FIAT
    now,                 \* utc_time of the last processed operation
    call,                \* the last call: [method, op]
    outcome,             \* how the last call ended
    ret,                 \* list[SoldCoin] the last remove handed to its caller
    pre,                 \* the state before the last call
    tax_report_entries,  \* Taxman.tax_report_entries
    single_depot_portfolio,  \* Taxman.single_depot_portfolio[coin]
    multi_depot_portfolio,   \* Taxman.multi_depot_portfolio[platform][coin]
    depot_mode,          \* config.MULTI_DEPOT / BalanceConfig.depot_mode
    _balances,           \* Taxman._balances: key -> BalanceQueue
    staking_tracker      \* Taxman.staking_tracker: the StakingTracker

vars == <<queue, buffer_fee, principle, handling,
          missing_acquisition_handling, isFiat, now, call, outcome, ret, pre,
          tax_report_entries, single_depot_portfolio,
          multi_depot_portfolio, depot_mode, _balances, staking_tracker>>

\* tr.Operation: the fields the engine reads.  synthetic marks the Buy that
\* remove() fabricates (line=[], remarks=["Synthetic ..."]).
Operation(kind, t, platform, change) ==
    [kind |-> kind, utc_time |-> t, platform |-> platform, change |-> change,
     synthetic |-> FALSE]

SyntheticBuy(t, platform, change) ==
    [kind |-> "Buy", utc_time |-> t, platform |-> platform, change |-> change,
     synthetic |-> TRUE]

\* BalancedOperation(op) with sold = Decimal()
BalancedOperation(op) == [op |-> op, sold |-> 0]

\* tr.SoldCoin(op, sold)
SoldCoin(op, sold) == [op |-> op, sold |-> sold]

\* BalancedOperation.not_sold: the value, and whether its assertion holds.
not_sold(bop) == bop.op.change - bop.sold

NotSoldAsserts(bop) == not_sold(bop) > 0

\* Outcomes of a call: "ok" or the exception that left it.
NotSoldError == "AssertionError: not_sold should be > 0"
RemovedTooMuch == "AssertionError: Removed more than necessary from the queue."
EvaluateSellError == "AssertionError: evaluate_sell"
RuntimeError == "RuntimeError"
ValueError == "ValueError"
Outcomes == {"ok", NotSoldError, RemovedTooMuch, EvaluateSellError, RuntimeError,
             ValueError}

\* sum(sc.sold for sc in sold_coins)
RECURSIVE SumSold(_)
SumSold(scs) == IF scs = <<>> THEN 0 ELSE Head(scs).sold + SumSold(Tail(scs))

\* sum(bop.not_sold for bop in balance.queue)
RECURSIVE Inventory(_)
Inventory(q) == IF q = <<>> THEN 0 ELSE not_sold(Head(q)) + Inventory(Tail(q))

\* _put_ of both subclasses: deque.append
PutFront(q, bop) == <<bop>> \o q

PutRaw(q, bop) == Append(q, bop)

\* _peek_: queue[0] (FIFO), queue[-1] (LIFO)
PeekIndexNewest(q) == Len(q)

PeekIndex(q) == IF principle = "FIFO" THEN 1 ELSE Len(q)

Peek(q) == q[PeekIndex(q)]

\* _pop_: popleft (FIFO), pop (LIFO)
PopOldest(q) == Tail(q)

Pop(q) == IF principle = "FIFO" THEN Tail(q) ELSE SubSeq(q, 1, Len(q) - 1)

\* `if not_sold > change`: the lot covers the rest of the request.
CoversInclusive(ns, change) == ns >= change

Covers(ns, change) == ns > change

\* The fragment of a partially consumed lot: SoldCoin(bop.op, change)
WholeFragment(bop, change) == SoldCoin(bop.op, not_sold(bop))

PartialFragment(bop, change) == SoldCoin(bop.op, change)

\* BalanceQueue._remove: the while loop, then `assert change >= 0`.
\* exc is "ok" or the assertion that failed.
RemoveLoopBreaks(q, change, sold_coins) ==
    IF q = <<>> \/ ~(change > 0)
    THEN [queue |-> q, sold_coins |-> sold_coins, change |-> change,
          exc |-> IF change >= 0 THEN "ok" ELSE RemovedTooMuch]
    ELSE LET bop == Peek(q)
             ns == not_sold(bop)
         IN  IF ~NotSoldAsserts(bop)
             THEN [queue |-> q, sold_coins |-> sold_coins, change |-> change,
                   exc |-> NotSoldError]
             ELSE IF Covers(ns, change)
             THEN [queue |-> [q EXCEPT ![PeekIndex(q)].sold = @ + change],
                   sold_coins |-> Append(sold_coins, PartialFragment(bop, change)),
                   change |-> 0,
                   exc |-> "ok"]
             ELSE [queue |-> Pop(q),
                   sold_coins |-> Append(sold_coins, SoldCoin(bop.op, ns)),
                   change |-> change - ns,
                   exc |-> "ok"]

RECURSIVE RemoveLoop(_, _, _)
RemoveLoop(q, change, sold_coins) ==
    IF q = <<>> \/ ~(change > 0)
    THEN [queue |-> q, sold_coins |-> sold_coins, change |-> change,
          exc |-> IF change >= 0 THEN "ok" ELSE RemovedTooMuch]
    ELSE LET bop == Peek(q)
             ns == not_sold(bop)
         IN  IF ~NotSoldAsserts(bop)
             THEN [queue |-> q, sold_coins |-> sold_coins, change |-> change,
                   exc |-> NotSoldError]
             ELSE IF Covers(ns, change)
             THEN [queue |-> [q EXCEPT ![PeekIndex(q)].sold = @ + change],
                   sold_coins |-> Append(sold_coins, PartialFragment(bop, change)),
                   change |-> 0,
                   exc |-> "ok"]
             ELSE RemoveLoop(Pop(q), change - ns,
                             Append(sold_coins, SoldCoin(bop.op, ns)))

_remove(q, change) == RemoveLoop(q, change, <<>>)

\* BalanceQueue._remove_fee: what _remove could not take is added to the
\* buffer (`self.buffer_fee += left_over`) unless the coin is fiat.
RemoveFeeOverwrites(q, bf, fee) ==
    LET r == _remove(q, fee)
    IN  [queue |-> r.queue,
         buffer_fee |-> IF r.exc = "ok" /\ r.change # 0 /\ ~isFiat
                        THEN r.change ELSE bf,
         exc |-> r.exc]

RemoveFeeBuffersFiat(q, bf, fee) ==
    LET r == _remove(q, fee)
    IN  [queue |-> r.queue,
         buffer_fee |-> IF r.exc = "ok" /\ r.change # 0
                        THEN bf + r.change ELSE bf,
         exc |-> r.exc]

_remove_fee(q, bf, fee) ==
    LET r == _remove(q, fee)
    IN  [queue |-> r.queue,
         buffer_fee |-> IF r.exc = "ok" /\ r.change # 0 /\ ~isFiat
                        THEN bf + r.change ELSE bf,
         exc |-> r.exc]

\* BalanceQueue._put (and add, which only asserts and delegates): append,
\* then clear the buffer and try to remove the buffered fee.
PutKeepsBuffer(q, bf, op) ==
    LET q1 == PutRaw(q, BalancedOperation(op))
    IN  IF bf # 0 THEN _remove_fee(q1, bf, bf)
        ELSE [queue |-> q1, buffer_fee |-> bf, exc |-> "ok"]

PutDropsBuffer(q, bf, op) ==
    [queue |-> PutRaw(q, BalancedOperation(op)), buffer_fee |-> 0,
     exc |-> "ok"]

_put(q, bf, op) ==
    LET q1 == PutRaw(q, BalancedOperation(op))
    IN  IF bf # 0 THEN _remove_fee(q1, 0, bf)
        ELSE [queue |-> q1, buffer_fee |-> bf, exc |-> "ok"]

\* The two truncation loops of remove(): keep fragments while they fit,
\* cut the first that does not, drop the rest.
RECURSIVE Truncate(_, _)
Truncate(scs, remaining) ==
    IF scs = <<>> \/ remaining <= 0 THEN <<>>
    ELSE IF Head(scs).sold <= remaining
         THEN <<Head(scs)>> \o Truncate(Tail(scs), remaining - Head(scs).sold)
         ELSE <<SoldCoin(Head(scs).op, remaining)>>

\* Final validation of remove()
FinalValidation(sold_coins, op) ==
    IF SumSold(sold_coins) > op.change THEN Truncate(sold_coins, op.change)
    ELSE sold_coins

Raise(q, bf, exc) ==
    [queue |-> q, buffer_fee |-> bf, ret |-> <<>>, outcome |-> exc]

Return(q, bf, sold_coins) ==
    [queue |-> q, buffer_fee |-> bf, ret |-> sold_coins, outcome |-> "ok"]

\* synthetic_time = op.utc_time - datetime.timedelta(seconds=1)
SyntheticTimeSame(op) == op.utc_time

SyntheticTime(op) == op.utc_time - 1

\* ZERO_COST branch of remove(): synthetic Buy one second before op, add it,
\* remove the shortfall again.
ZeroCost(q, bf, op, sold_coins, unsold_change) ==
    LET syn == SyntheticBuy(SyntheticTime(op), op.platform, unsold_change)
        a == _put(q, bf, syn)
        r == _remove(a.queue, unsold_change)
        extended == IF SumSold(r.sold_coins) <= unsold_change
                    THEN sold_coins \o r.sold_coins
                    ELSE sold_coins \o Truncate(r.sold_coins, unsold_change)
    IN  IF a.exc # "ok" THEN Raise(a.queue, a.buffer_fee, a.exc)
        ELSE IF r.exc # "ok" THEN Raise(r.queue, a.buffer_fee, r.exc)
        ELSE IF r.change # 0 THEN Raise(r.queue, a.buffer_fee, RuntimeError)
        ELSE Return(r.queue, a.buffer_fee, FinalValidation(extended, op))

\* `if unsold_change:` branch of remove(): the policy on a shortfall.
ShortfallErrorAsWarning(q, bf, op, sold_coins, unsold_change) ==
    IF isFiat \/ handling \in {"WARNING", "ERROR"}
    THEN Return(q, bf, FinalValidation(sold_coins, op))
    ELSE ZeroCost(q, bf, op, sold_coins, unsold_change)

ShortfallWarningBuffers(q, bf, op, sold_coins, unsold_change) ==
    IF isFiat THEN Return(q, bf, FinalValidation(sold_coins, op))
    ELSE IF handling = "ERROR" THEN Raise(q, bf, RuntimeError)
    ELSE IF handling = "ZERO_COST"
    THEN ZeroCost(q, bf, op, sold_coins, unsold_change)
    ELSE Return(q, bf + unsold_change, FinalValidation(sold_coins, op))

ShortfallFiatAsConfigured(q, bf, op, sold_coins, unsold_change) ==
    IF handling = "ERROR" THEN Raise(q, bf, RuntimeError)
    ELSE IF handling = "ZERO_COST"
    THEN ZeroCost(q, bf, op, sold_coins, unsold_change)
    ELSE Return(q, bf, FinalValidation(sold_coins, op))

Shortfall(q, bf, op, sold_coins, unsold_change) ==
    IF isFiat THEN Return(q, bf, FinalValidation(sold_coins, op))
    ELSE IF handling = "ERROR" THEN Raise(q, bf, RuntimeError)
    ELSE IF handling = "ZERO_COST"
    THEN ZeroCost(q, bf, op, sold_coins, unsold_change)
    ELSE Return(q, bf, FinalValidation(sold_coins, op))

\* BalanceQueue.remove
RemoveRollsBack(q, bf, op) ==
    LET r == _remove(q, op.change)
    IN  IF r.exc # "ok" THEN Raise(r.queue, bf, r.exc)
        ELSE IF SumSold(r.sold_coins) > op.change
        THEN Raise(r.queue, bf, RuntimeError)
        ELSE IF r.change # 0 /\ ~isFiat /\ handling = "ERROR"
        THEN Raise(q, bf, RuntimeError)
        ELSE IF r.change # 0
        THEN Shortfall(r.queue, bf, op, r.sold_coins, r.change)
        ELSE Return(r.queue, bf, FinalValidation(r.sold_coins, op))

remove(q, bf, op) ==
    LET r == _remove(q, op.change)
    IN  IF r.exc # "ok" THEN Raise(r.queue, bf, r.exc)
        ELSE IF SumSold(r.sold_coins) > op.change
        THEN Raise(r.queue, bf, RuntimeError)
        ELSE IF r.change # 0
        THEN Shortfall(r.queue, bf, op, r.sold_coins, r.change)
        ELSE Return(r.queue, bf, FinalValidation(r.sold_coins, op))

\* BalanceQueue.remove_all: pop every lot, one SoldCoin of not_sold each.
\* The lot is popped before not_sold is read (and asserted).
RECURSIVE RemoveAllWholeLots(_, _)
RemoveAllWholeLots(q, sold_coins) ==
    IF q = <<>> THEN [queue |-> q, sold_coins |-> sold_coins, exc |-> "ok"]
    ELSE LET bop == Peek(q)
         IN  IF ~NotSoldAsserts(bop)
             THEN [queue |-> Pop(q), sold_coins |-> sold_coins,
                   exc |-> NotSoldError]
             ELSE RemoveAllWholeLots(Pop(q),
                      Append(sold_coins, SoldCoin(bop.op, bop.op.change)))

RECURSIVE RemoveAllLoop(_, _)
RemoveAllLoop(q, sold_coins) ==
    IF q = <<>> THEN [queue |-> q, sold_coins |-> sold_coins, exc |-> "ok"]
    ELSE LET bop == Peek(q)
         IN  IF ~NotSoldAsserts(bop)
             THEN [queue |-> Pop(q), sold_coins |-> sold_coins,
                   exc |-> NotSoldError]
             ELSE RemoveAllLoop(Pop(q),
                      Append(sold_coins, SoldCoin(bop.op, not_sold(bop))))

remove_all(q) == RemoveAllLoop(q, <<>>)

\* BalanceQueue.sanity_check: raises iff a fee is left on a non-fiat queue.
SanityCheckSilent(bf) == "ok"

sanity_check(bf) == IF bf # 0 /\ ~isFiat THEN RuntimeError ELSE "ok"

\* self._balances = {}
NoBalances == [key \in {} |-> 0]

\* StakingTracker.__init__: no contract, counter 0, no cache.  The cache is
\* None (valid = FALSE) or a dict (valid = TRUE; a missing key reads as 0).
NoCache == [valid |-> FALSE, amounts |-> [p \in Platforms |-> 0]]

NewStakingTracker ==
    [_active_contracts |-> [p \in Platforms |-> <<>>],
     _contract_counter |-> 0,
     _staked_amounts_cache |-> NoCache]

(***************************************************************************)
(* StakingTracker.  One coin is modelled; a tracker value st is the record *)
(* of the object's fields.                                                 *)
(***************************************************************************)

Min(a, b) == IF a <= b THEN a ELSE b

\* StakedCoin(operation, amount, coin, platform, start_time, stake_type)
StakedCoin(operation, amount, platform, start_time, stake_type) ==
    [operation |-> operation, amount |-> amount, platform |-> platform,
     start_time |-> start_time, stake_type |-> stake_type]

\* sum(sc.amount for sc in staked_coins): StakingContract.get_total_staked
RECURSIVE get_total_staked(_)
get_total_staked(staked_coins) ==
    IF staked_coins = <<>> THEN 0
    ELSE Head(staked_coins).amount + get_total_staked(Tail(staked_coins))

\* sum(contract.get_total_staked() for contract in contracts
\*     if contract.is_active)
RECURSIVE TotalStaked(_)
TotalStaked(contracts) ==
    IF contracts = <<>> THEN 0
    ELSE (IF Head(contracts).is_active
          THEN get_total_staked(Head(contracts).staked_coins) ELSE 0)
         + TotalStaked(Tail(contracts))

_invalidate_cache(st) == [st EXCEPT !._staked_amounts_cache = NoCache]

_rebuild_cache(st) ==
    [st EXCEPT !._staked_amounts_cache =
        [valid |-> TRUE,
         amounts |-> [p \in Platforms |-> TotalStaked(st._active_contracts[p])]]]

\* get_staked_amount(platform, coin): the tracker after the call (the cache
\* is rebuilt when it was None) and the value returned.
Queried(st) == IF st._staked_amounts_cache.valid THEN st ELSE _rebuild_cache(st)

get_staked_amount(st, platform) ==
    Queried(st)._staked_amounts_cache.amounts[platform]

\* get_staking_summary(): the total of the active contracts of every
\* platform, computed from the contracts (a missing key reads as 0).
get_staking_summary(st) ==
    [p \in Platforms |-> TotalStaked(st._active_contracts[p])]

\* [contract for contract in contract_list if contract.is_active]
ActiveOnly(contracts) ==
    LET active(contract) == contract.is_active
    IN  SelectSeq(contracts, active)

\* StakingTracker.clear_ended_contracts
clear_ended_contracts(st) ==
    _invalidate_cache(
        [st EXCEPT !._active_contracts =
            [p \in Platforms |-> ActiveOnly(st._active_contracts[p])]])

\* The amount of one acquisition locked in the active contracts of platform.
RECURSIVE StakedOfIn(_, _)
StakedOfIn(operation, staked_coins) ==
    IF staked_coins = <<>> THEN 0
    ELSE (IF Head(staked_coins).operation = operation
          THEN Head(staked_coins).amount ELSE 0)
         + StakedOfIn(operation, Tail(staked_coins))

RECURSIVE StakedOf(_, _)
StakedOf(operation, contracts) ==
    IF contracts = <<>> THEN 0
    ELSE (IF Head(contracts).is_active
          THEN StakedOfIn(operation, Head(contracts).staked_coins) ELSE 0)
         + StakedOf(operation, Tail(contracts))

\* get_available_amount(platform, coin, operation)
get_available_amount(st, platform, operation) ==
    LET available == operation.change
                     - StakedOf(operation, st._active_contracts[platform])
    IN  IF available > 0 THEN available ELSE 0

\* op.coin: the operations are of one coin, but for a lot that names
\* another.
DefaultCoin == "BTC"

coin(op) == IF "coin" \in DOMAIN op THEN op.coin ELSE DefaultCoin

\* The allocation loop of start_staking_contract: each offered lot gives
\* min(remaining_to_stake, sold_coin.sold), in the order given.
RECURSIVE AllocateAnyCoin(_, _, _)
AllocateAnyCoin(available_coins, remaining_to_stake, start_operation) ==
    IF available_coins = <<>> \/ remaining_to_stake <= 0
    THEN [staked_coins |-> <<>>, remaining_to_stake |-> remaining_to_stake]
    ELSE LET sold_coin == Head(available_coins)
             amount_to_stake == Min(remaining_to_stake, sold_coin.sold)
             stake_type == IF start_operation.kind = "CoinLend"
                           THEN "lending" ELSE "staking"
             rest == AllocateAnyCoin(Tail(available_coins),
                                     remaining_to_stake - amount_to_stake,
                                     start_operation)
         IN  [staked_coins |->
                 <<StakedCoin(sold_coin.op, amount_to_stake,
                              start_operation.platform,
                              start_operation.utc_time, stake_type)>>
                 \o rest.staked_coins,
              remaining_to_stake |-> rest.remaining_to_stake]

\* The loop of start_staking_contract over available_coins
RECURSIVE Allocate(_, _, _)
Allocate(available_coins, remaining_to_stake, start_operation) ==
    IF available_coins = <<>> \/ remaining_to_stake <= 0
    THEN [staked_coins |-> <<>>, remaining_to_stake |-> remaining_to_stake]
    ELSE LET sold_coin == Head(available_coins)
             amount_to_stake == Min(remaining_to_stake, sold_coin.sold)
             stake_type == IF start_operation.kind = "CoinLend"
                           THEN "lending" ELSE "staking"
         IN  IF coin(sold_coin.op) # coin(start_operation)
             THEN Allocate(Tail(available_coins), remaining_to_stake,
                           start_operation)
             ELSE IF amount_to_stake > 0
             THEN LET rest == Allocate(Tail(available_coins),
                                       remaining_to_stake - amount_to_stake,
                                       start_operation)
                  IN  [staked_coins |->
                          <<StakedCoin(sold_coin.op, amount_to_stake,
                                       start_operation.platform,
                                       start_operation.utc_time, stake_type)>>
                          \o rest.staked_coins,
                       remaining_to_stake |-> rest.remaining_to_stake]
             ELSE Allocate(Tail(available_coins), remaining_to_stake,
                           start_operation)

\* StakingTracker.start_staking_contract.  The contract id is unique by its
\* counter part, which stands for the id; 0 stands for None.
StartKeepsCache(st, start_operation, available_coins) ==
    IF start_operation.kind \notin {"CoinLend", "Staking"}
    THEN [tracker |-> st, ret |-> 0, exc |-> ValueError]
    ELSE LET counted == [st EXCEPT !._contract_counter = @ + 1]
             contract_id == counted._contract_counter
             a == Allocate(available_coins, start_operation.change,
                           start_operation)
             contract == [contract_id |-> contract_id,
                          platform |-> start_operation.platform,
                          total_amount |-> start_operation.change,
                          start_operation |-> start_operation,
                          staked_coins |-> a.staked_coins,
                          is_active |-> TRUE]
         IN  IF a.remaining_to_stake > 0
             THEN [tracker |-> counted, ret |-> 0, exc |-> ValueError]
             ELSE [tracker |->
                      [counted EXCEPT
                          !._active_contracts[start_operation.platform] =
                              Append(@, contract)],
                   ret |-> contract_id,
                   exc |-> "ok"]

\* StakingTracker.start_staking_contract(start_operation, available_coins)
start_staking_contract(st, start_operation, available_coins) ==
    IF start_operation.kind \notin {"CoinLend", "Staking"}
    THEN [tracker |-> st, ret |-> 0, exc |-> ValueError]
    ELSE LET counted == [st EXCEPT !._contract_counter = @ + 1]
             contract_id == counted._contract_counter
             a == Allocate(available_coins, start_operation.change,
                           start_operation)
             contract == [contract_id |-> contract_id,
                          platform |-> start_operation.platform,
                          total_amount |-> start_operation.change,
                          start_operation |-> start_operation,
                          staked_coins |-> a.staked_coins,
                          is_active |-> TRUE]
         IN  IF a.remaining_to_stake > 0
             THEN [tracker |-> counted, ret |-> 0, exc |-> ValueError]
             ELSE [tracker |->
                      _invalidate_cache(
                          [counted EXCEPT
                              !._active_contracts[start_operation.platform] =
                                  Append(@, contract)]),
                   ret |-> contract_id,
                   exc |-> "ok"]

\* The contract end_staking_contract ends: the one with the id, or the
\* oldest by start time (the first of them in the list); 0 if there is none.
SelectNewest(platform_contracts, contract_id) ==
    LET n == Len(platform_contracts)
        T(i) == platform_contracts[i].start_operation.utc_time
        chosen == IF contract_id # 0
                  THEN {i \in 1..n :
                           platform_contracts[i].contract_id = contract_id}
                  ELSE {i \in 1..n :
                           /\ \A j \in 1..n : T(i) >= T(j)
                           /\ \A j \in (i + 1)..n : T(j) < T(i)}
    IN  IF chosen = {} THEN 0 ELSE CHOOSE i \in chosen : TRUE

\* contract_to_end of end_staking_contract
SelectContract(platform_contracts, contract_id) ==
    LET n == Len(platform_contracts)
        T(i) == platform_contracts[i].start_operation.utc_time
        chosen == IF contract_id # 0
                  THEN {i \in 1..n :
                           platform_contracts[i].contract_id = contract_id}
                  ELSE {i \in 1..n :
                           /\ \A j \in 1..n : T(i) <= T(j)
                           /\ \A j \in 1..(i - 1) : T(j) > T(i)}
    IN  IF chosen = {} THEN 0 ELSE CHOOSE i \in chosen : TRUE

RemoveAt(seq, i) == SubSeq(seq, 1, i - 1) \o SubSeq(seq, i + 1, Len(seq))

\* get_active_contracts(platform, coin): the active contracts of the list.
get_active_contracts(st, platform) ==
    ActiveOnly(st._active_contracts[platform])

\* StakingTracker.end_staking_contract
EndMarksOnly(st, end_operation, contract_id) ==
    LET platform_contracts == st._active_contracts[end_operation.platform]
        i == SelectContract(platform_contracts, contract_id)
    IN  IF end_operation.kind \notin {"CoinLendEnd", "StakingEnd"}
        THEN [tracker |-> st, ret |-> <<>>, exc |-> ValueError]
        ELSE IF platform_contracts = <<>> \/ i = 0
        THEN [tracker |-> st, ret |-> <<>>, exc |-> ValueError]
        ELSE IF end_operation.change
                # get_total_staked(platform_contracts[i].staked_coins)
        THEN [tracker |-> st, ret |-> <<>>, exc |-> ValueError]
        ELSE [tracker |->
                 _invalidate_cache(
                     [st EXCEPT
                         !._active_contracts[end_operation.platform][i]
                             .is_active = FALSE]),
              ret |-> platform_contracts[i].staked_coins,
              exc |-> "ok"]

EndBeforeVerifying(st, end_operation, contract_id) ==
    LET platform_contracts == st._active_contracts[end_operation.platform]
        i == SelectContract(platform_contracts, contract_id)
        ended == _invalidate_cache(
                     [st EXCEPT !._active_contracts[end_operation.platform] =
                         RemoveAt(@, i)])
    IN  IF end_operation.kind \notin {"CoinLendEnd", "StakingEnd"}
        THEN [tracker |-> st, ret |-> <<>>, exc |-> ValueError]
        ELSE IF platform_contracts = <<>> \/ i = 0
        THEN [tracker |-> st, ret |-> <<>>, exc |-> ValueError]
        ELSE IF end_operation.change
                # get_total_staked(platform_contracts[i].staked_coins)
        THEN [tracker |-> ended, ret |-> <<>>, exc |-> ValueError]
        ELSE [tracker |-> ended,
              ret |-> platform_contracts[i].staked_coins,
              exc |-> "ok"]

EndKeepsContract(st, end_operation, contract_id) ==
    LET platform_contracts == st._active_contracts[end_operation.platform]
        i == SelectContract(platform_contracts, contract_id)
    IN  IF end_operation.kind \notin {"CoinLendEnd", "StakingEnd"}
        THEN [tracker |-> st, ret |-> <<>>, exc |-> ValueError]
        ELSE IF platform_contracts = <<>> \/ i = 0
        THEN [tracker |-> st, ret |-> <<>>, exc |-> ValueError]
        ELSE IF end_operation.change
                # get_total_staked(platform_contracts[i].staked_coins)
        THEN [tracker |-> st, ret |-> <<>>, exc |-> ValueError]
        ELSE [tracker |-> _invalidate_cache(st),
              ret |-> platform_contracts[i].staked_coins,
              exc |-> "ok"]

\* StakingTracker.end_staking_contract(end_operation, contract_id)
end_staking_contract(st, end_operation, contract_id) ==
    LET platform_contracts == st._active_contracts[end_operation.platform]
        i == SelectContract(platform_contracts, contract_id)
    IN  IF end_operation.kind \notin {"CoinLendEnd", "StakingEnd"}
        THEN [tracker |-> st, ret |-> <<>>, exc |-> ValueError]
        ELSE IF platform_contracts = <<>> \/ i = 0
        THEN [tracker |-> st, ret |-> <<>>, exc |-> ValueError]
        ELSE IF end_operation.change
                # get_total_staked(platform_contracts[i].staked_coins)
        THEN [tracker |-> st, ret |-> <<>>, exc |-> ValueError]
        ELSE [tracker |->
                 _invalidate_cache(
                     [st EXCEPT !._active_contracts[end_operation.platform] =
                         RemoveAt(@, i)]),
              ret |-> platform_contracts[i].staked_coins,
              exc |-> "ok"]

TypeOK ==
    /\ buffer_fee \in Int
    /\ principle \in Principles
    /\ handling \in Handlings
    /\ missing_acquisition_handling \in Handlings
    /\ isFiat \in BOOLEAN
    /\ now \in Nat
    /\ outcome \in Outcomes

Init ==
    /\ queue = <<>>
    /\ buffer_fee = 0
    /\ principle \in Principles
    /\ handling \in Handlings
    /\ missing_acquisition_handling = handling
    /\ isFiat \in BOOLEAN
    /\ now = 0
    /\ call = [method |-> "init", op |-> Operation("none", 0, "binance", 0)]
    /\ outcome = "ok"
    /\ ret = <<>>
    /\ pre = [queue |-> <<>>, buffer_fee |-> 0, entries |-> <<>>,
              method |-> "init", outcome |-> "ok"]
    /\ tax_report_entries = <<>>
    /\ single_depot_portfolio = 0
    /\ multi_depot_portfolio = [p \in Platforms |-> 0]
    /\ depot_mode = "SINGLE"
    /\ _balances = NoBalances
    /\ staking_tracker = NewStakingTracker

\* The run goes on: no exception so far, operations left in the stream, and
\* the final sanity check not yet reached.
Running ==
    /\ outcome = "ok"
    /\ now < MaxOps
    /\ call.method \notin {"sanity_check", "remove_all"}

Snapshot ==
    pre' = [queue |-> queue, buffer_fee |-> buffer_fee,
            entries |-> tax_report_entries,
            method |-> call.method, outcome |-> outcome]

Config ==
    UNCHANGED <<principle, handling, missing_acquisition_handling, isFiat>>

\* The depot state, which the processing of one operation leaves alone.
Depots ==
    UNCHANGED <<single_depot_portfolio, multi_depot_portfolio, depot_mode,
                _balances>>

\* State of the taxman that the processing of one operation leaves alone.
Rest == Depots /\ UNCHANGED staking_tracker

\* BalanceQueue.add(op)
AddOp(op) ==
    LET a == _put(queue, buffer_fee, op)
    IN  /\ Running
        /\ now' = op.utc_time
        /\ call' = [method |-> "add", op |-> op]
        /\ Snapshot
        /\ queue' = a.queue
        /\ buffer_fee' = a.buffer_fee
        /\ outcome' = a.exc
        /\ ret' = <<>>
        /\ UNCHANGED tax_report_entries
        /\ Config
        /\ Rest

\* Acquisitions are recorded on AcquisitionPlatform; removals come from any
\* platform (in SINGLE depot mode one queue serves them all).
Add ==
    \E c \in 1..MaxChange :
        AddOp(Operation("Buy", now + 1, AcquisitionPlatform, c))

\* add(op) with op.change = 0, which Operation accepts (the data model asks
\* for a non-negative change only).
AddZero == AddOp(Operation("Buy", now + 1, AcquisitionPlatform, 0))

\* BalanceQueue.remove(op), as Taxman calls it for a Withdrawal
Remove ==
    \E c \in 1..MaxChange, p \in Platforms :
        LET op == Operation("Withdrawal", now + 1, p, c)
            r == remove(queue, buffer_fee, op)
        IN  /\ Running
            /\ now' = op.utc_time
            /\ call' = [method |-> "remove", op |-> op]
            /\ Snapshot
            /\ queue' = r.queue
            /\ buffer_fee' = r.buffer_fee
            /\ outcome' = r.outcome
            /\ ret' = r.ret
            /\ UNCHANGED tax_report_entries
            /\ Config
            /\ Rest

\* BalanceQueue.remove_fee(fee)
RemoveFee ==
    \E c \in 1..MaxChange :
        LET op == Operation("Fee", now + 1, "binance", c)
            r == _remove_fee(queue, buffer_fee, op.change)
        IN  /\ Running
            /\ now' = op.utc_time
            /\ call' = [method |-> "remove_fee", op |-> op]
            /\ Snapshot
            /\ queue' = r.queue
            /\ buffer_fee' = r.buffer_fee
            /\ outcome' = r.exc
            /\ ret' = <<>>
            /\ UNCHANGED tax_report_entries
            /\ Config
            /\ Rest

\* in_tax_year(op)
in_tax_year(op) == op.utc_time \div OneYear = TAX_YEAR

\* Taxman._evaluate_sell: one SellReportEntry per fragment.  The fragment is
\* cut to op.change first when it is larger.
SellReportEntry(op, sc0) ==
    LET sc == IF op.change < sc0.sold THEN SoldCoin(sc0.op, op.change) ELSE sc0
    IN  [sell_platform |-> op.platform,
         buy_platform |-> sc.op.platform,
         amount |-> sc.sold,
         sell_utc_time |-> op.utc_time,
         buy_utc_time |-> sc.op.utc_time,
         is_taxable |-> sc.op.utc_time + OneYear >= op.utc_time]

RECURSIVE SellReportEntries(_, _)
SellReportEntries(op, scs) ==
    IF scs = <<>> THEN <<>>
    ELSE <<SellReportEntry(op, Head(scs))>> \o SellReportEntries(op, Tail(scs))

\* Taxman.evaluate_sell: its third assertion, then the loop over the
\* fragments (asserts on coin and tax year hold by the caller's guard).
evaluate_sell(op, sold_coins) ==
    IF op.change # SumSold(sold_coins)
    THEN [raised |-> TRUE, entries |-> <<>>]
    ELSE [raised |-> FALSE, entries |-> SellReportEntries(op, sold_coins)]

\* Sell branch of Taxman._evaluate_taxation_GERMANY: get_staked_amount (whose
\* value only selects a log message), remove_from_balance,
\* remove_fees_from_balance, evaluate_sell.
SellBranch(op, fee) ==
    LET r == remove(queue, buffer_fee, op)
        f == IF r.outcome = "ok" /\ fee > 0
             THEN _remove_fee(r.queue, r.buffer_fee, fee)
             ELSE [queue |-> r.queue, buffer_fee |-> r.buffer_fee,
                   exc |-> "ok"]
        evaluated == r.outcome = "ok" /\ f.exc = "ok" /\ ~isFiat
                     /\ in_tax_year(op)
        e == evaluate_sell(op, r.ret)
    IN  /\ queue' = f.queue
        /\ buffer_fee' = f.buffer_fee
        /\ outcome' = IF r.outcome # "ok" THEN r.outcome
                      ELSE IF f.exc # "ok" THEN f.exc
                      ELSE IF evaluated /\ e.raised THEN EvaluateSellError
                      ELSE "ok"
        /\ ret' = r.ret
        /\ tax_report_entries' =
               IF evaluated /\ ~e.raised
               THEN tax_report_entries \o e.entries
               ELSE tax_report_entries
        /\ staking_tracker' = Queried(staking_tracker)

\* A Sell of the stream, with op.fees empty or one Fee in the queue's coin.
Sell ==
    \E c \in 1..MaxChange, fee \in SellFees :
        LET op == Operation("Sell", now + 1, "kraken", c)
        IN  /\ Running
            /\ now' = op.utc_time
            /\ call' = [method |-> "sell", op |-> op]
            /\ Snapshot
            /\ SellBranch(op, fee)
            /\ Config
            /\ Depots

\* BalanceQueue.sanity_check(), which Taxman.evaluate_taxation calls once the
\* operations are processed (the stream may end after any operation); it
\* reads the state only and may be repeated, also after it raised.
SanityCheck ==
    /\ \/ outcome = "ok" /\ call.method # "remove_all"
       \/ call.method = "sanity_check"
    /\ call' = [method |-> "sanity_check", op |-> call.op]
    /\ Snapshot
    /\ outcome' = sanity_check(buffer_fee)
    /\ ret' = <<>>
    /\ UNCHANGED <<queue, buffer_fee, now, tax_report_entries>>
    /\ Config
    /\ Rest

\* TAX_DEADLINE: the end of the tax year
TAX_DEADLINE == (TAX_YEAR + 1) * OneYear - 1

\* tr.Sell(utc_time=TAX_DEADLINE, platform=sc.op.platform, change=sc.sold)
UnrealizedSell(sc) == Operation("Sell", TAX_DEADLINE, sc.op.platform, sc.sold)

\* _evaluate_sell(unrealized_sell, sc, ReportType=UnrealizedSellReportEntry)
RECURSIVE UnrealizedSellReportEntries(_)
UnrealizedSellReportEntries(scs) ==
    IF scs = <<>> THEN <<>>
    ELSE <<SellReportEntry(UnrealizedSell(Head(scs)), Head(scs))>>
         \o UnrealizedSellReportEntries(Tail(scs))

\* multi_depot_portfolio[sc.op.platform][sc.op.coin] += sc.sold
RECURSIVE SumSoldOn(_, _)
SumSoldOn(scs, p) ==
    IF scs = <<>> THEN 0
    ELSE (IF Head(scs).op.platform = p THEN Head(scs).sold ELSE 0)
         + SumSoldOn(Tail(scs), p)

\* Taxman._evaluate_unrealized_sells, which evaluate_taxation calls after the
\* sanity check passed when config.CALCULATE_UNREALIZED_GAINS is set:
\* remove_all, the portfolio sums, one unrealized sell per fragment of a
\* non-fiat coin.
EvaluateUnrealizedSells ==
    LET r == remove_all(queue)
    IN  /\ call.method = "sanity_check" /\ outcome = "ok"
        /\ call' = [method |-> "remove_all", op |-> call.op]
        /\ Snapshot
        /\ queue' = r.queue
        /\ outcome' = r.exc
        /\ ret' = r.sold_coins
        /\ single_depot_portfolio' =
               single_depot_portfolio + SumSold(r.sold_coins)
        /\ multi_depot_portfolio' =
               [p \in Platforms |->
                   multi_depot_portfolio[p] + SumSoldOn(r.sold_coins, p)]
        /\ tax_report_entries' =
               IF r.exc = "ok" /\ ~isFiat
               THEN tax_report_entries
                    \o UnrealizedSellReportEntries(r.sold_coins)
               ELSE tax_report_entries
        /\ UNCHANGED <<buffer_fee, now, depot_mode, _balances, staking_tracker>>
        /\ Config

Next ==
    Add \/ Remove \/ RemoveFee \/ Sell \/ SanityCheck
    \/ EvaluateUnrealizedSells

NextZ == Next \/ AddZero

Spec == Init /\ [][Next]_vars

\* The same engine fed with every change the data model allows (0 included).
SpecZ == Init /\ [][NextZ]_vars

(***************************************************************************)
(* Depots: the balances of one coin on several platforms, as Taxman keeps  *)
(* them in _balances.                                                      *)
(***************************************************************************)

DepotModes == {"SINGLE", "MULTI"}

\* op.change of the operations on the depots: one unit or two.
Amounts == {1, 2}

\* The key of a balance: (platform, coin) under MULTI depot mode, the coin
\* alone otherwise (BalanceKey.create: platform = None).  One coin is
\* modelled, so the key is the platform or None.
KeyIgnoresMode(platform) == "None"

BalanceKey(platform) == IF depot_mode = "MULTI" THEN platform ELSE "None"

\* Taxman.balance: the queue of the key, created empty on first use.
balance(platform) ==
    LET key == BalanceKey(platform)
    IN  IF key \in DOMAIN _balances THEN _balances
        ELSE (key :> [queue |-> <<>>, buffer_fee |-> 0]) @@ _balances

InitDepot ==
    /\ queue = <<>>
    /\ buffer_fee = 0
    /\ principle \in Principles
    /\ handling \in Handlings
    /\ missing_acquisition_handling = handling
    /\ isFiat = FALSE
    /\ now = 0
    /\ call = [method |-> "init", op |-> Operation("none", 0, "binance", 0)]
    /\ outcome = "ok"
    /\ ret = <<>>
    /\ pre = [balances |-> NoBalances]
    /\ tax_report_entries = <<>>
    /\ single_depot_portfolio = 0
    /\ multi_depot_portfolio = [p \in Platforms |-> 0]
    /\ depot_mode \in DepotModes
    /\ _balances = NoBalances
    /\ staking_tracker = NewStakingTracker

\* What an operation on the balances leaves alone.
DepotFrame ==
    UNCHANGED <<queue, buffer_fee, principle, handling,
                missing_acquisition_handling, isFiat,
                tax_report_entries, single_depot_portfolio,
                multi_depot_portfolio, depot_mode, staking_tracker>>

\* The balances with the queue of op's key replaced by the outcome r of a
\* call on it.
Stored(op, r) ==
    [balance(op.platform) EXCEPT ![BalanceKey(op.platform)] =
        [queue |-> r.queue, buffer_fee |-> r.buffer_fee]]

\* Taxman.add_to_balance(op): self.balance_op(op).add(op)
add_to_balance ==
    \E c \in Amounts, p \in Platforms :
        LET op == Operation("Buy", now + 1, p, c)
            b == balance(p)[BalanceKey(p)]
            a == _put(b.queue, b.buffer_fee, op)
        IN  /\ Running
            /\ now' = op.utc_time
            /\ call' = [method |-> "add", op |-> op]
            /\ pre' = [balances |-> _balances]
            /\ _balances' = Stored(op, a)
            /\ outcome' = a.exc
            /\ ret' = <<>>
            /\ DepotFrame

\* Taxman.remove_from_balance(op): self.balance_op(op).remove(op)
remove_from_balance ==
    \E c \in Amounts, p \in Platforms :
        LET op == Operation("Withdrawal", now + 1, p, c)
            b == balance(p)[BalanceKey(p)]
            r == remove(b.queue, b.buffer_fee, op)
        IN  /\ Running
            /\ now' = op.utc_time
            /\ call' = [method |-> "remove", op |-> op]
            /\ pre' = [balances |-> _balances]
            /\ _balances' = Stored(op, r)
            /\ outcome' = r.outcome
            /\ ret' = r.ret
            /\ DepotFrame

\* Taxman.remove_fees_from_balance([fee]): self.balance_op(fee).remove_fee(fee)
remove_fees_from_balance ==
    \E c \in Amounts, p \in Platforms :
        LET op == Operation("Fee", now + 1, p, c)
            b == balance(p)[BalanceKey(p)]
            r == _remove_fee(b.queue, b.buffer_fee, op.change)
        IN  /\ Running
            /\ now' = op.utc_time
            /\ call' = [method |-> "remove_fee", op |-> op]
            /\ pre' = [balances |-> _balances]
            /\ _balances' = Stored(op, r)
            /\ outcome' = r.exc
            /\ ret' = <<>>
            /\ DepotFrame

NextDepot == add_to_balance \/ remove_from_balance \/ remove_fees_from_balance

SpecDepot == InitDepot /\ [][NextDepot]_vars

(***************************************************************************)
(* The one-year rule on its own: the two places that classify a sold       *)
(* fragment, applied to a Sell and the fragments removed for it.           *)
(***************************************************************************)

\* GermanTaxRules.calculate_holding_period_taxation(buy_date, sell_date)
HoldingPeriodInclusive(buy_date, sell_date) == buy_date + OneYear >= sell_date

calculate_holding_period_taxation(buy_date, sell_date) ==
    buy_date + OneYear > sell_date

\* TaxCalculationService._create_sell_report_entry: one SellReportEntry per
\* fragment that the holding period leaves taxable, none for the others.
RECURSIVE _create_sell_report_entry(_, _)
_create_sell_report_entry(operation, sold_coins) ==
    IF sold_coins = <<>> THEN <<>>
    ELSE LET sold_coin == Head(sold_coins)
             is_taxable == calculate_holding_period_taxation(
                               sold_coin.op.utc_time, operation.utc_time)
             sell_entry == [sell_platform |-> operation.platform,
                            buy_platform |-> sold_coin.op.platform,
                            amount |-> sold_coin.sold,
                            sell_utc_time |-> operation.utc_time,
                            buy_utc_time |-> sold_coin.op.utc_time,
                            is_taxable |-> is_taxable]
         IN  (IF is_taxable THEN <<sell_entry>> ELSE <<>>)
             \o _create_sell_report_entry(operation, Tail(sold_coins))

\* A Sell of two units at any time up to the tax deadline, and two fragments
\* of one unit each from lots acquired at or before the sale.
InitRules ==
    /\ queue = <<>>
    /\ buffer_fee = 0
    /\ principle = "FIFO"
    /\ handling = "ERROR"
    /\ missing_acquisition_handling = "ERROR"
    /\ isFiat = FALSE
    /\ \E sell_time \in 0..TAX_DEADLINE :
         \E buy1 \in 0..sell_time, buy2 \in 0..sell_time :
            /\ now = sell_time
            /\ call = [method |-> "init",
                       op |-> Operation("Sell", sell_time, "kraken", 2)]
            /\ ret = <<SoldCoin(Operation("Buy", buy1, "binance", 1), 1),
                       SoldCoin(Operation("Buy", buy2, "binance", 1), 1)>>
    /\ outcome = "ok"
    /\ pre = [entries |-> <<>>]
    /\ tax_report_entries = <<>>
    /\ single_depot_portfolio = 0
    /\ multi_depot_portfolio = [p \in Platforms |-> 0]
    /\ depot_mode = "SINGLE"
    /\ _balances = NoBalances
    /\ staking_tracker = NewStakingTracker

RulesFrame ==
    UNCHANGED <<queue, buffer_fee, principle, handling,
                missing_acquisition_handling, isFiat, now, outcome,
                ret, pre, single_depot_portfolio, multi_depot_portfolio,
                depot_mode, _balances, staking_tracker>>

\* Taxman.evaluate_sell(op, sold_coins), which asserts that op is in the tax
\* year: _evaluate_sell for every fragment
EvaluateSell ==
    /\ call.method = "init"
    /\ in_tax_year(call.op)
    /\ call' = [call EXCEPT !.method = "evaluate_sell"]
    /\ tax_report_entries' = evaluate_sell(call.op, ret).entries
    /\ RulesFrame

\* TaxCalculationService._create_sell_report_entry(operation, sold_coins)
CreateSellReportEntry ==
    /\ call.method = "init"
    /\ call' = [call EXCEPT !.method = "_create_sell_report_entry"]
    /\ tax_report_entries' = _create_sell_report_entry(call.op, ret)
    /\ RulesFrame

NextRules == EvaluateSell \/ CreateSellReportEntry

SpecRules == InitRules /\ [][NextRules]_vars

(***************************************************************************)
(* The StakingTracker on its own, driven through its public methods.  An   *)
(* exception of one call does not end the run: the caller may catch it.    *)
(***************************************************************************)

\* Two acquisitions whose coins are offered to the tracker, and one of
\* another coin.
LotA == Operation("Buy", 0, "binance", 2)
LotB == Operation("Deposit", 0, "binance", 2)
LotC == Operation("Buy", 0, "binance", 2) @@ [coin |-> "ETH"]

\* available_coins of start_staking_contract: one unit of one lot, or one
\* unit of each of the two lots.
Offers ==
    {<<SoldCoin(LotA, 1)>>,
     <<SoldCoin(LotA, 1), SoldCoin(LotB, 1)>>}

\* One unit of each of the two lots, a lot of another coin ahead of one
\* unit, or a whole lot.
OffersOfTwoCoins ==
    {<<SoldCoin(LotA, 1), SoldCoin(LotB, 1)>>,
     <<SoldCoin(LotC, 2), SoldCoin(LotB, 1)>>,
     <<SoldCoin(LotA, 2)>>}

NoCall ==
    [method |-> "init", op |-> Operation("none", 0, "binance", 0),
     available_coins |-> <<>>, contract_id |-> 0, staked_before |-> 0]

InitTracker ==
    /\ queue = <<>>
    /\ buffer_fee = 0
    /\ principle = "FIFO"
    /\ handling = "ERROR"
    /\ missing_acquisition_handling = "ERROR"
    /\ isFiat = FALSE
    /\ now = 0
    /\ call = NoCall
    /\ outcome = "ok"
    /\ ret = <<>>
    /\ pre = [tracker |-> NewStakingTracker, call |-> NoCall,
              outcome |-> "ok", ret |-> <<>>]
    /\ tax_report_entries = <<>>
    /\ single_depot_portfolio = 0
    /\ multi_depot_portfolio = [p \in Platforms |-> 0]
    /\ depot_mode = "SINGLE"
    /\ _balances = NoBalances
    /\ staking_tracker = NewStakingTracker

TrackerFrame ==
    UNCHANGED <<queue, buffer_fee, principle, handling,
                missing_acquisition_handling, isFiat,
                tax_report_entries, single_depot_portfolio,
                multi_depot_portfolio, depot_mode, _balances>>

TrackerSnapshot ==
    pre' = [tracker |-> staking_tracker, call |-> call, outcome |-> outcome,
            ret |-> ret]

\* The tracker is driven until one of its calls raises.
TrackerRunning == outcome = "ok" /\ now < MaxOps

\* start_staking_contract(start_operation, available_coins); the contract
\* id it returns is kept in call.contract_id (0 when it raised).
Start(kinds, offers, times) ==
    \E p \in Platforms, kind \in kinds, c \in Amounts,
       available_coins \in offers, t \in times :
        LET op == Operation(kind, t, p, c)
            r == start_staking_contract(staking_tracker, op, available_coins)
        IN  /\ TrackerRunning
            /\ now' = now + 1
            /\ call' = [method |-> "start_staking_contract", op |-> op,
                        available_coins |-> available_coins,
                        contract_id |-> r.ret,
                        staked_before |->
                            get_staked_amount(staking_tracker, p)]
            /\ TrackerSnapshot
            /\ staking_tracker' = r.tracker
            /\ outcome' = r.exc
            /\ ret' = <<>>
            /\ TrackerFrame

\* A start whose operation is later than every operation before it.
StartStakingContract == Start({"CoinLend", "Staking"}, Offers, {now + 1})

\* end_staking_contract(end_operation, contract_id), contract_id None (0) or
\* an id that was handed out; ret is the list of StakedCoin returned.
EndStakingContract ==
    \E p \in Platforms, c \in Amounts,
       contract_id \in 0..staking_tracker._contract_counter :
        LET op == Operation("StakingEnd", now + 1, p, c)
            r == end_staking_contract(staking_tracker, op, contract_id)
        IN  /\ TrackerRunning
            /\ now' = now + 1
            /\ call' = [method |-> "end_staking_contract", op |-> op,
                        available_coins |-> <<>>,
                        contract_id |-> contract_id,
                        staked_before |->
                            get_staked_amount(staking_tracker, p)]
            /\ TrackerSnapshot
            /\ staking_tracker' = r.tracker
            /\ outcome' = r.exc
            /\ ret' = r.ret
            /\ TrackerFrame

\* get_staked_amount(platform, coin) while the cache is None: it is rebuilt.
GetStakedAmount ==
    /\ ~staking_tracker._staked_amounts_cache.valid
    /\ staking_tracker' = Queried(staking_tracker)
    /\ UNCHANGED <<now, call, outcome, ret, pre>>
    /\ TrackerFrame

\* clear_ended_contracts(), called while the cache holds a dict: the lists
\* keep their active contracts and the cache is dropped.
ClearEndedContracts ==
    /\ staking_tracker._staked_amounts_cache.valid
    /\ staking_tracker' = clear_ended_contracts(staking_tracker)
    /\ UNCHANGED <<now, call, outcome, ret, pre>>
    /\ TrackerFrame

NextTracker == StartStakingContract \/ EndStakingContract \/ GetStakedAmount

SpecTracker == InitTracker /\ [][NextTracker]_vars

(***************************************************************************)
(* The StakingTracker with every public method that writes: the start      *)
(* operations come in time order and two of them may carry the same time,  *)
(* the lots offered may be of another coin, and ended contracts may be     *)
(* cleared at any moment.                                                  *)
(***************************************************************************)

\* utc_time of the next start operation.
StartTimes == {now + 1} \cup {t \in {now} : t > 0}

StartAtAnyTime == Start({"Staking"}, OffersOfTwoCoins, StartTimes)

NextContracts ==
    StartAtAnyTime \/ EndStakingContract \/ GetStakedAmount
    \/ ClearEndedContracts

SpecContracts == InitTracker /\ [][NextContracts]_vars

(***************************************************************************)
(* Taxman with lending and staking: the balance of one coin, the staking   *)
(* tracker, and the branches of _evaluate_taxation_GERMANY that touch them.*)
(***************************************************************************)

\* Coins are lent and staked on the platform the sells are made on (in
\* SINGLE depot mode one queue serves every platform).
LendingPlatform == "kraken"

\* The loop over balance.queue that picks the coins to stake: each lot gives
\* min(remaining_to_stake, available_from_this_op, bop.not_sold).
RECURSIVE CoinsToStake(_, _, _, _)
CoinsToStake(q, st, platform, remaining_to_stake) ==
    IF q = <<>> \/ remaining_to_stake <= 0
    THEN [coins_to_stake |-> <<>>, remaining_to_stake |-> remaining_to_stake]
    ELSE LET bop == Head(q)
             available_from_this_op ==
                 get_available_amount(st, platform, bop.op)
             amount_to_use ==
                 Min(remaining_to_stake,
                     Min(available_from_this_op, not_sold(bop)))
         IN  IF available_from_this_op > 0 /\ amount_to_use > 0
             THEN LET rest == CoinsToStake(Tail(q), st, platform,
                                           remaining_to_stake - amount_to_use)
                  IN  [coins_to_stake |->
                          <<SoldCoin(bop.op, amount_to_use)>>
                          \o rest.coins_to_stake,
                       remaining_to_stake |-> rest.remaining_to_stake]
             ELSE CoinsToStake(Tail(q), st, platform, remaining_to_stake)

\* CoinLend / Staking branch: when the balance holds enough coins that are
\* not staked, the lots are picked and a contract is started; otherwise a
\* warning is logged.  The balance itself is not changed.
Stake ==
    \E kind \in {"CoinLend", "Staking"}, c \in Amounts :
        LET op == Operation(kind, now + 1, LendingPlatform, c)
            st == Queried(staking_tracker)
            total_in_balance == Inventory(queue)
            already_staked == get_staked_amount(st, op.platform)
            available_for_staking == total_in_balance - already_staked
            picked == CoinsToStake(queue, st, op.platform, c)
            r == start_staking_contract(st, op, picked.coins_to_stake)
            started == /\ available_for_staking >= c
                       /\ picked.remaining_to_stake <= 0
        IN  /\ Running
            /\ now' = op.utc_time
            /\ call' = [method |-> "stake", op |-> op]
            /\ Snapshot
            /\ staking_tracker' = IF started THEN r.tracker ELSE st
            /\ outcome' = IF started THEN r.exc ELSE "ok"
            /\ ret' = <<>>
            /\ UNCHANGED <<queue, buffer_fee, tax_report_entries>>
            /\ Config
            /\ Depots

\* CoinLendEnd / StakingEnd branch: end_staking_contract(op) without an id;
\* its ValueError is caught and logged (call.caught), and the run goes on.
StakeEnd ==
    \E c \in Amounts :
        LET op == Operation("StakingEnd", now + 1, LendingPlatform, c)
            r == end_staking_contract(staking_tracker, op, 0)
        IN  /\ Running
            /\ now' = op.utc_time
            /\ call' = [method |-> "stake_end", op |-> op, caught |-> r.exc]
            /\ Snapshot
            /\ staking_tracker' = r.tracker
            /\ outcome' = "ok"
            /\ ret' = <<>>
            /\ UNCHANGED <<queue, buffer_fee, tax_report_entries>>
            /\ Config
            /\ Depots

NextStaking == Add \/ Sell \/ Stake \/ StakeEnd

SpecStaking == Init /\ [][NextStaking]_vars

(***************************************************************************)
(* BalanceManager: the queues of one coin by balance key, and the          *)
(* portfolio positions its PortfolioManager keeps beside them.             *)
(***************************************************************************)

\* BalanceManager.get_balance(platform, coin): the queue of the key, created
\* empty on first use by self._BalanceType(coin), that is with the default
\* missing_acquisition_handling of BalanceQueue.__init__ (ERROR).
get_balance(platform) == balance(platform)

\* PortfolioManager.add_to_portfolio(platform, coin, amount)
add_to_portfolio(platform, amount) ==
    IF depot_mode = "MULTI"
    THEN /\ multi_depot_portfolio' =
                [multi_depot_portfolio EXCEPT ![platform] = @ + amount]
         /\ UNCHANGED single_depot_portfolio
    ELSE /\ single_depot_portfolio' = single_depot_portfolio + amount
         /\ UNCHANGED multi_depot_portfolio

\* PortfolioManager.remove_from_portfolio(platform, coin, amount); a position
\* that reaches 0 is deleted and reads as 0 afterwards.
remove_from_portfolio(platform, amount) ==
    IF depot_mode = "MULTI"
    THEN /\ multi_depot_portfolio' =
                [multi_depot_portfolio EXCEPT ![platform] = @ - amount]
         /\ UNCHANGED single_depot_portfolio
    ELSE /\ single_depot_portfolio' = single_depot_portfolio - amount
         /\ UNCHANGED multi_depot_portfolio

ManagerFrame ==
    UNCHANGED <<queue, buffer_fee, principle, handling,
                missing_acquisition_handling, isFiat,
                tax_report_entries, depot_mode, staking_tracker>>

\* BalanceManager.process_operation(op): Buy, Deposit and CoinLendEnd go to
\* add_to_balance; Sell, Withdrawal and CoinLend to remove_from_balance; a
\* Fee to remove_fees_from_balance, which calls balance.remove(fee); any
\* other operation is skipped.  An exception of the queue leaves before the
\* portfolio is updated.
ProcessOperationAddsUnhandled(op) ==
    LET b == get_balance(op.platform)[BalanceKey(op.platform)]
        a == _put(b.queue, b.buffer_fee, op)
        r == remove(b.queue, b.buffer_fee, op)
    IN  IF op.kind \in {"Buy", "Deposit", "CoinLendEnd"}
        THEN /\ _balances' = Stored(op, a)
             /\ outcome' = a.exc
             /\ ret' = <<>>
             /\ IF a.exc = "ok" THEN add_to_portfolio(op.platform, op.change)
                ELSE UNCHANGED <<single_depot_portfolio,
                                 multi_depot_portfolio>>
        ELSE IF op.kind \in {"Sell", "Withdrawal", "CoinLend", "Fee"}
        THEN /\ _balances' = Stored(op, r)
             /\ outcome' = r.outcome
             /\ ret' = IF op.kind = "Fee" THEN <<>> ELSE r.ret
             /\ IF r.outcome = "ok"
                THEN remove_from_portfolio(op.platform, op.change)
                ELSE UNCHANGED <<single_depot_portfolio,
                                 multi_depot_portfolio>>
        ELSE /\ _balances' = Stored(op, a)
             /\ outcome' = a.exc
             /\ ret' = <<>>
             /\ UNCHANGED <<single_depot_portfolio, multi_depot_portfolio>>

\* BalanceManager.process_operation(op)
process_operation(op) ==
    LET b == get_balance(op.platform)[BalanceKey(op.platform)]
        a == _put(b.queue, b.buffer_fee, op)
        r == remove(b.queue, b.buffer_fee, op)
    IN  IF op.kind \in {"Buy", "Deposit", "CoinLendEnd"}
        THEN /\ _balances' = Stored(op, a)
             /\ outcome' = a.exc
             /\ ret' = <<>>
             /\ IF a.exc = "ok" THEN add_to_portfolio(op.platform, op.change)
                ELSE UNCHANGED <<single_depot_portfolio,
                                 multi_depot_portfolio>>
        ELSE IF op.kind \in {"Sell", "Withdrawal", "CoinLend", "Fee"}
        THEN /\ _balances' = Stored(op, r)
             /\ outcome' = r.outcome
             /\ ret' = IF op.kind = "Fee" THEN <<>> ELSE r.ret
             /\ IF r.outcome = "ok"
                THEN remove_from_portfolio(op.platform, op.change)
                ELSE UNCHANGED <<single_depot_portfolio,
                                 multi_depot_portfolio>>
        ELSE /\ outcome' = "ok"
             /\ ret' = <<>>
             /\ UNCHANGED <<_balances, single_depot_portfolio,
                            multi_depot_portfolio>>

\* A ledger with lending is four operations long at least (acquire, lend,
\* get back, sell).
LedgerRunning == outcome = "ok" /\ now <= MaxOps

\* The manager after construction; call.lent is the amount lent and not yet
\* returned (the ledger's, the manager does not keep it).
InitLending ==
    /\ queue = <<>>
    /\ buffer_fee = 0
    /\ principle \in Principles
    /\ handling = "ERROR"
    /\ missing_acquisition_handling = "ERROR"
    /\ isFiat = FALSE
    /\ now = 0
    /\ call = [method |-> "init", op |-> Operation("none", 0, "binance", 0),
               lent |-> 0]
    /\ outcome = "ok"
    /\ ret = <<>>
    /\ pre = [balances |-> NoBalances]
    /\ tax_report_entries = <<>>
    /\ single_depot_portfolio = 0
    /\ multi_depot_portfolio = [p \in Platforms |-> 0]
    /\ depot_mode \in DepotModes
    /\ _balances = NoBalances
    /\ staking_tracker = NewStakingTracker

\* One operation of the ledger handed to process_operation.
Process(op, lent) ==
    /\ LedgerRunning
    /\ now' = op.utc_time
    /\ call' = [method |-> "process_operation", op |-> op, lent |-> lent]
    /\ pre' = [balances |-> _balances]
    /\ process_operation(op)
    /\ ManagerFrame

ProcessBuy ==
    \E c \in Amounts :
        Process(Operation("Buy", now + 1, AcquisitionPlatform, c), call.lent)

ProcessSell ==
    \E c \in Amounts :
        Process(Operation("Sell", now + 1, AcquisitionPlatform, c), call.lent)

ProcessCoinLend ==
    \E c \in Amounts :
        Process(Operation("CoinLend", now + 1, AcquisitionPlatform, c),
                call.lent + c)

\* Coins come back from a loan that is out.
ProcessCoinLendEnd ==
    \E c \in Amounts :
        /\ c <= call.lent
        /\ Process(Operation("CoinLendEnd", now + 1, AcquisitionPlatform, c),
                   call.lent - c)

NextLending ==
    ProcessBuy \/ ProcessSell \/ ProcessCoinLend \/ ProcessCoinLendEnd

SpecLending == InitLending /\ [][NextLending]_vars

\* The manager fed with acquisitions, sales, fees and operations it has no
\* branch for, on every platform, under every configuration.
InitManager ==
    /\ queue = <<>>
    /\ buffer_fee = 0
    /\ principle \in Principles
    /\ handling = "ERROR"
    /\ missing_acquisition_handling \in Handlings
    /\ isFiat = FALSE
    /\ now = 0
    /\ call = [method |-> "init", op |-> Operation("none", 0, "binance", 0)]
    /\ outcome = "ok"
    /\ ret = <<>>
    /\ pre = [balances |-> NoBalances, single_depot_portfolio |-> 0,
              multi_depot_portfolio |-> [p \in Platforms |-> 0]]
    /\ tax_report_entries = <<>>
    /\ single_depot_portfolio = 0
    /\ multi_depot_portfolio = [p \in Platforms |-> 0]
    /\ depot_mode \in DepotModes
    /\ _balances = NoBalances
    /\ staking_tracker = NewStakingTracker

\* process_operation(op) for the next operation of the stream; an exception
\* ends the run.
ManagerProcess(op) ==
    /\ outcome = "ok"
    /\ now < MaxOps
    /\ now' = op.utc_time
    /\ call' = [method |-> "process_operation", op |-> op]
    /\ pre' = [balances |-> _balances,
               single_depot_portfolio |-> single_depot_portfolio,
               multi_depot_portfolio |-> multi_depot_portfolio]
    /\ process_operation(op)
    /\ ManagerFrame

ManagerBuy ==
    \E p \in Platforms, c \in Amounts :
        ManagerProcess(Operation("Buy", now + 1, p, c))

ManagerSell ==
    \E p \in Platforms, c \in Amounts :
        ManagerProcess(Operation("Sell", now + 1, p, c))

ManagerFee ==
    \E p \in Platforms, c \in Amounts :
        ManagerProcess(Operation("Fee", now + 1, p, c))

\* An operation process_operation has no branch for (a Staking start).
ManagerSkip ==
    \E p \in Platforms, c \in Amounts :
        ManagerProcess(Operation("Staking", now + 1, p, c))

NextManager == ManagerBuy \/ ManagerSell \/ ManagerFee \/ ManagerSkip

SpecManager == InitManager /\ [][NextManager]_vars

(***************************************************************************)
(* The evaluation of a book: an input list of operations, in any order and *)
(* with equal timestamps, is sorted and fed operation by operation, by     *)
(* TaxCalculationService.evaluate_operations to the BalanceManager or by   *)
(* Taxman.evaluate_taxation to its own balance.                            *)
(***************************************************************************)

Engines == {"Taxman", "TaxCalculationService"}

\* utc_time of the operations of a book: the last second before the tax
\* year and its first.
BookTimes == {OneYear - 1, OneYear}

BookOperations ==
    {Operation(kind, t, AcquisitionPlatform, c) :
        kind \in {"Buy", "Sell"}, t \in BookTimes, c \in Amounts}

Books == UNION {[1..n -> BookOperations] : n \in 0..MaxOps}

\* sorted(operations, key=lambda op: op.utc_time): Python's sort is stable,
\* an operation goes behind those of the same time that precede it.
RECURSIVE InsertBeforeEqual(_, _)
InsertBeforeEqual(op, ops) ==
    IF ops = <<>> THEN <<op>>
    ELSE IF Head(ops).utc_time >= op.utc_time THEN <<op>> \o ops
    ELSE <<Head(ops)>> \o InsertBeforeEqual(op, Tail(ops))

RECURSIVE InsertByTime(_, _)
InsertByTime(op, ops) ==
    IF ops = <<>> THEN <<op>>
    ELSE IF Head(ops).utc_time > op.utc_time THEN <<op>> \o ops
    ELSE <<Head(ops)>> \o InsertByTime(op, Tail(ops))

RECURSIVE sorted(_)
sorted(operations) ==
    IF operations = <<>> THEN <<>>
    ELSE InsertByTime(operations[Len(operations)],
                      sorted(SubSeq(operations, 1, Len(operations) - 1)))

\* tr.sort_operations(operations, ["utc_time"]): sorted once by timestamp,
\* ties kept in their original order.
sort_operations(operations) == sorted(operations)

InitBook ==
    /\ queue = <<>>
    /\ buffer_fee = 0
    /\ principle \in Principles
    /\ handling = "ERROR"
    /\ missing_acquisition_handling = "ERROR"
    /\ isFiat = FALSE
    /\ now = 0
    /\ call = [method |-> "init", op |-> Operation("none", 0, "binance", 0),
               engine |-> "Taxman", fed |-> <<>>]
       \/ call = [method |-> "init", op |-> Operation("none", 0, "binance", 0),
                  engine |-> "TaxCalculationService", fed |-> <<>>]
    /\ outcome = "ok"
    /\ ret = <<>>
    /\ pre \in [operations : Books]
    /\ tax_report_entries = <<>>
    /\ single_depot_portfolio = 0
    /\ multi_depot_portfolio = [p \in Platforms |-> 0]
    /\ depot_mode = "SINGLE"
    /\ _balances = NoBalances
    /\ staking_tracker = NewStakingTracker

\* The loop of an evaluation reaches its next operation: call.fed lists the
\* operations fed so far.
Feeding(engine) ==
    /\ call.engine = engine
    /\ outcome = "ok"
    /\ Len(call.fed) < Len(pre.operations)

Fed(op) ==
    /\ now' = op.utc_time
    /\ call' = [method |-> "evaluate", op |-> op, engine |-> call.engine,
                fed |-> Append(call.fed, op)]
    /\ UNCHANGED pre

\* One turn of the loop of TaxCalculationService.evaluate_operations:
\* _evaluate_single_operation(operation), that is process_operation and, for
\* a Sell that returned fragments, the report entries of the taxable ones.
EvaluateSingleOperation ==
    LET operation == sorted(pre.operations)[Len(call.fed) + 1]
    IN  /\ Feeding("TaxCalculationService")
        /\ Fed(operation)
        /\ process_operation(operation)
        /\ tax_report_entries' =
               IF operation.kind = "Sell" /\ outcome' = "ok" /\ ret' # <<>>
               THEN tax_report_entries
                    \o _create_sell_report_entry(operation, ret')
               ELSE tax_report_entries
        /\ UNCHANGED <<queue, buffer_fee, principle, handling,
                       missing_acquisition_handling, isFiat, depot_mode,
                       staking_tracker>>

\* One turn of the loop of Taxman.evaluate_taxation:
\* _evaluate_taxation_GERMANY(operation) for a Buy or a Sell without fees.
EvaluateTaxation ==
    LET operation == sort_operations(pre.operations)[Len(call.fed) + 1]
        a == _put(queue, buffer_fee, operation)
    IN  /\ Feeding("Taxman")
        /\ Fed(operation)
        /\ IF operation.kind = "Buy"
           THEN /\ queue' = a.queue
                /\ buffer_fee' = a.buffer_fee
                /\ outcome' = a.exc
                /\ ret' = <<>>
                /\ UNCHANGED <<tax_report_entries, staking_tracker>>
           ELSE SellBranch(operation, 0)
        /\ Config
        /\ Depots

NextBook == EvaluateSingleOperation \/ EvaluateTaxation

SpecBook == InitBook /\ [][NextBook]_vars

(***************************************************************************)
(* The BalanceManager and its PortfolioManager for a coin that may be the  *)
(* home fiat currency.                                                     *)
(***************************************************************************)

InitPortfolio ==
    /\ queue = <<>>
    /\ buffer_fee = 0
    /\ principle \in Principles
    /\ handling = "ERROR"
    /\ missing_acquisition_handling = "ERROR"
    /\ isFiat \in BOOLEAN
    /\ now = 0
    /\ call = [method |-> "init", op |-> Operation("none", 0, "binance", 0)]
    /\ outcome = "ok"
    /\ ret = <<>>
    /\ pre = [balances |-> NoBalances, single_depot_portfolio |-> 0,
              multi_depot_portfolio |-> [p \in Platforms |-> 0]]
    /\ tax_report_entries = <<>>
    /\ single_depot_portfolio = 0
    /\ multi_depot_portfolio = [p \in Platforms |-> 0]
    /\ depot_mode \in DepotModes
    /\ _balances = NoBalances
    /\ staking_tracker = NewStakingTracker

SpecPortfolio == InitPortfolio /\ [][NextManager]_vars

(***************************************************************************)
(* The PortfolioManager on its own, with its mapping as the code stores    *)
(* it: a position is a key of the dict or it is not there.  The mapping of *)
(* the configured mode is kept in multi_depot_portfolio (keys: platforms)  *)
(* or single_depot_portfolio (key: the coin); one coin is modelled.        *)
(***************************************************************************)

\* collections.defaultdict(decimal.Decimal) before its first access
NoPositions == [key \in {} |-> 0]

\* The key of (platform, coin) in the mapping of the configured mode.
PositionKey(platform) == IF depot_mode = "MULTI" THEN platform ELSE DefaultCoin

\* The mapping of the configured mode.
Portfolio ==
    IF depot_mode = "MULTI" THEN multi_depot_portfolio
    ELSE single_depot_portfolio

\* d[key] of a defaultdict: a missing key is created with Decimal() = 0.
Touched(d, key) == IF key \in DOMAIN d THEN d ELSE (key :> 0) @@ d

\* d[key] += amount
AddPosition(d, key, amount) ==
    [Touched(d, key) EXCEPT ![key] = @ + amount]

\* del d[key]
Deleted(d, key) == [k \in DOMAIN d \ {key} |-> d[k]]

\* d[key] -= amount; if d[key] == 0: del d[key]
RemoveKeepsZero(d, key, amount) ==
    [Touched(d, key) EXCEPT ![key] = @ - amount]

RemovePosition(d, key, amount) ==
    LET removed == [Touched(d, key) EXCEPT ![key] = @ - amount]
    IN  IF removed[key] = 0 THEN Deleted(removed, key) ELSE removed

\* PortfolioManager.get_all_positions: a PortfolioPosition for every stored
\* amount > 0, with platform "All" in SINGLE mode.
get_all_positions(d) ==
    {[platform |-> IF depot_mode = "MULTI" THEN key ELSE "All",
      amount |-> d[key]] : key \in {k \in DOMAIN d : d[k] > 0}}

\* The amounts of add_to_portfolio and remove_from_portfolio: op.change,
\* which may be 0.
PositionAmounts == {0} \cup Amounts

InitPositions ==
    /\ queue = <<>>
    /\ buffer_fee = 0
    /\ principle = "FIFO"
    /\ handling = "ERROR"
    /\ missing_acquisition_handling = "ERROR"
    /\ isFiat = FALSE
    /\ now = 0
    /\ call = [method |-> "init", platform |-> "binance", amount |-> 0]
    /\ outcome = "ok"
    /\ ret = {}
    /\ pre = [portfolio |-> NoPositions]
    /\ tax_report_entries = <<>>
    /\ single_depot_portfolio = NoPositions
    /\ multi_depot_portfolio = NoPositions
    /\ depot_mode \in DepotModes
    /\ _balances = NoBalances
    /\ staking_tracker = NewStakingTracker

\* A call on the PortfolioManager that leaves the mapping d behind.
PositionsCall(method, platform, amount, d) ==
    /\ now < MaxOps
    /\ now' = now + 1
    /\ call' = [method |-> method, platform |-> platform, amount |-> amount]
    /\ pre' = [portfolio |-> Portfolio]
    /\ IF depot_mode = "MULTI"
       THEN multi_depot_portfolio' = d /\ UNCHANGED single_depot_portfolio
       ELSE single_depot_portfolio' = d /\ UNCHANGED multi_depot_portfolio
    /\ UNCHANGED <<queue, buffer_fee, principle, handling,
                   missing_acquisition_handling, isFiat, outcome,
                   tax_report_entries, depot_mode, _balances,
                   staking_tracker>>

\* add_to_portfolio(platform, coin, amount)
AddToPortfolio ==
    \E p \in Platforms, amount \in PositionAmounts :
        /\ PositionsCall("add_to_portfolio", p, amount,
                         AddPosition(Portfolio, PositionKey(p), amount))
        /\ UNCHANGED ret

\* remove_from_portfolio(platform, coin, amount)
RemoveFromPortfolio ==
    \E p \in Platforms, amount \in PositionAmounts :
        /\ PositionsCall("remove_from_portfolio", p, amount,
                         RemovePosition(Portfolio, PositionKey(p), amount))
        /\ UNCHANGED ret

\* get_position(platform, coin), which reads through the defaultdict
GetPosition ==
    \E p \in Platforms :
        /\ PositionsCall("get_position", p, 0,
                         Touched(Portfolio, PositionKey(p)))
        /\ UNCHANGED ret

\* get_all_positions(); ret is the set of positions it lists
GetAllPositions ==
    /\ call.method # "get_all_positions"
    /\ call' = [call EXCEPT !.method = "get_all_positions"]
    /\ ret' = get_all_positions(Portfolio)
    /\ UNCHANGED <<queue, buffer_fee, principle, handling,
                   missing_acquisition_handling, isFiat, now, outcome, pre,
                   tax_report_entries, single_depot_portfolio,
                   multi_depot_portfolio, depot_mode, _balances,
                   staking_tracker>>

NextPositions ==
    AddToPortfolio \/ RemoveFromPortfolio \/ GetPosition \/ GetAllPositions

SpecPositions == InitPositions /\ [][NextPositions]_vars

(***************************************************************************)
(* A ledger evaluated by TaxCalculationService.evaluate_operations: every  *)
(* kind of operation BalanceManager.process_operation moves coins for, on  *)
(* one balance key.                                                        *)
(***************************************************************************)

LedgerKinds == {"Buy", "Sell", "Withdrawal", "CoinLend", "Fee"}

LedgerOperations ==
    {Operation(kind, t, AcquisitionPlatform, c) :
        kind \in LedgerKinds, t \in BookTimes, c \in Amounts}

Ledgers == UNION {[1..n -> LedgerOperations] : n \in 0..MaxOps}

InitLedger ==
    /\ queue = <<>>
    /\ buffer_fee = 0
    /\ principle \in Principles
    /\ handling = "ERROR"
    /\ missing_acquisition_handling = "ERROR"
    /\ isFiat = FALSE
    /\ now = 0
    /\ call = [method |-> "init", op |-> Operation("none", 0, "binance", 0),
               engine |-> "TaxCalculationService", fed |-> <<>>]
    /\ outcome = "ok"
    /\ ret = <<>>
    /\ pre \in [operations : Ledgers]
    /\ tax_report_entries = <<>>
    /\ single_depot_portfolio = 0
    /\ multi_depot_portfolio = [p \in Platforms |-> 0]
    /\ depot_mode = "SINGLE"
    /\ _balances = NoBalances
    /\ staking_tracker = NewStakingTracker

NextLedger == EvaluateSingleOperation

SpecLedger == InitLedger /\ [][NextLedger]_vars

(***************************************************************************)
(* Dispatch: either engine, the Taxman or the BalanceManager, is fed a     *)
(* stream that also holds operations its dispatch has no branch for.       *)
(***************************************************************************)

\* The else branch of Taxman._evaluate_taxation_GERMANY: the operation is
\* logged, nothing else.
TaxmanSkip ==
    \E c \in Amounts :
        LET op == Operation("Unhandled", now + 1, AcquisitionPlatform, c)
        IN  /\ Running
            /\ now' = op.utc_time
            /\ call' = [method |-> "skip", op |-> op]
            /\ pre' = [queue |-> queue, buffer_fee |-> buffer_fee,
                       entries |-> tax_report_entries,
                       method |-> call.method, outcome |-> outcome,
                       staking_tracker |-> staking_tracker,
                       single_depot_portfolio |-> single_depot_portfolio,
                       multi_depot_portfolio |-> multi_depot_portfolio]
            /\ outcome' = "ok"
            /\ ret' = <<>>
            /\ UNCHANGED <<queue, buffer_fee, tax_report_entries,
                           staking_tracker>>
            /\ Config
            /\ Depots

\* Which engine the run is of: the manager's runs keep the balances in pre.
Engine == IF "balances" \in DOMAIN pre THEN "BalanceManager" ELSE "Taxman"

InitDispatch == Init \/ InitManager

TaxmanDispatch == Engine = "Taxman" /\ (NextStaking \/ TaxmanSkip)

ManagerDispatch == Engine = "BalanceManager" /\ NextManager

NextDispatch == TaxmanDispatch \/ ManagerDispatch

SpecDispatch == InitDispatch /\ [][NextDispatch]_vars

(***************************************************************************)
(* Properties                                                              *)
(***************************************************************************)

\* The last call was remove(op) on the queue; what it asked for and what the
\* queue held when it was called.
Requested == call.op.change

InventoryBefore == Inventory(pre.queue)

RemoveCalled == call.method = "remove"

ShortfallCase == RemoveCalled /\ Requested > InventoryBefore

\* Lots of pre.queue in the order the policy consumes them.
RECURSIVE Reverse(_)
Reverse(q) == IF q = <<>> THEN <<>> ELSE Append(Reverse(Tail(q)), Head(q))

\* C1: FIFO removal order.  On a FIFO queue a remove of X <= inventory
\* returns fragments of the lots in insertion order (a prefix of the
\* queue), every fragment but the last takes its lot's whole not_sold, the
\* fragments sum to X, and afterwards the queue is the untouched suffix,
\* preceded by the last touched lot (with sold raised) if it was not used up.
C1_FifoOrder ==
    (principle = "FIFO" /\ RemoveCalled /\ Requested <= InventoryBefore)
    => /\ outcome = "ok"
       /\ Len(ret) <= Len(pre.queue)
       /\ SumSold(ret) = Requested
       /\ \A i \in 1..Len(ret) :
            /\ ret[i].op = pre.queue[i].op
            /\ ret[i].sold <= not_sold(pre.queue[i])
            /\ i < Len(ret) => ret[i].sold = not_sold(pre.queue[i])
       /\ LET k == Len(ret)
              rest == SubSeq(pre.queue, k + 1, Len(pre.queue))
          IN  IF k > 0 /\ ret[k].sold < not_sold(pre.queue[k])
              THEN queue = <<[pre.queue[k] EXCEPT !.sold = @ + ret[k].sold]>>
                           \o rest
              ELSE queue = rest

\* The instance of C1: A(2), B(3) resident, remove 4 gives [(A,2),(B,2)] and
\* leaves B with not_sold = 1.
C1_Witness ==
    /\ principle = "FIFO" /\ RemoveCalled /\ Requested = 4
    /\ Len(pre.queue) = 2
    /\ pre.queue[1].op.change = 2 /\ pre.queue[1].sold = 0
    /\ pre.queue[2].op.change = 3 /\ pre.queue[2].sold = 0
    /\ Len(ret) = 2
    /\ ret[1] = SoldCoin(pre.queue[1].op, 2)
    /\ ret[2] = SoldCoin(pre.queue[2].op, 2)
    /\ Len(queue) = 1 /\ queue[1].op = pre.queue[2].op /\ not_sold(queue[1]) = 1

\* C2: LIFO removal order.  On a LIFO queue a remove of X <= inventory
\* returns fragments of the lots in reverse insertion order, only the last
\* fragment may be partial, they sum to X, and afterwards the queue is the
\* untouched front part, followed by the last touched lot if not used up.
C2_LifoOrder ==
    (principle = "LIFO" /\ RemoveCalled /\ Requested <= InventoryBefore)
    => LET rq == Reverse(pre.queue)
           k == Len(ret)
           n == Len(pre.queue)
       IN  /\ outcome = "ok"
           /\ k <= n
           /\ SumSold(ret) = Requested
           /\ \A i \in 1..k :
                /\ ret[i].op = rq[i].op
                /\ ret[i].sold <= not_sold(rq[i])
                /\ i < k => ret[i].sold = not_sold(rq[i])
           /\ IF k > 0 /\ ret[k].sold < not_sold(rq[k])
              THEN queue = SubSeq(pre.queue, 1, n - k)
                           \o <<[rq[k] EXCEPT !.sold = @ + ret[k].sold]>>
              ELSE queue = SubSeq(pre.queue, 1, n - k)

\* The instance of C2: A(2), B(3) resident, remove 4 gives [(B,3),(A,1)] and
\* leaves A with not_sold = 1.
C2_Witness ==
    /\ principle = "LIFO" /\ RemoveCalled /\ Requested = 4
    /\ Len(pre.queue) = 2
    /\ pre.queue[1].op.change = 2 /\ pre.queue[1].sold = 0
    /\ pre.queue[2].op.change = 3 /\ pre.queue[2].sold = 0
    /\ Len(ret) = 2
    /\ ret[1] = SoldCoin(pre.queue[2].op, 3)
    /\ ret[2] = SoldCoin(pre.queue[1].op, 1)
    /\ Len(queue) = 1 /\ queue[1].op = pre.queue[1].op /\ not_sold(queue[1]) = 1

ZeroLotResident ==
    \/ \E i \in 1..Len(queue) : queue[i].op.change = 0
    \/ \E i \in 1..Len(pre.queue) : pre.queue[i].op.change = 0

C4_NeverOverDelivers ==
    (RemoveCalled /\ outcome = "ok")
    => /\ SumSold(ret) <= Requested
       /\ InventoryBefore >= Requested => SumSold(ret) = Requested
       /\ \A i \in 1..Len(ret) :
            ret[i].sold > 0 /\ ret[i].sold <= ret[i].op.change

\* A remove that ends inside a partly sold lot, after using up another one.
C4_Witness ==
    /\ RemoveCalled /\ outcome = "ok"
    /\ Len(ret) = 2
    /\ SumSold(ret) = Requested
    /\ InventoryBefore > Requested

\* C5: ERROR mode.  On a non-fiat queue with ERROR handling a remove asking
\* for more than the inventory raises RuntimeError and hands no SoldCoin
\* list to the caller.
C5_ErrorModeRaises ==
    (~isFiat /\ handling = "ERROR" /\ ShortfallCase)
    => outcome = RuntimeError /\ ret = <<>>

\* ERROR mode shortfall on a queue that held a lot (a partial sale would
\* have been possible).
C5_Witness ==
    /\ ~isFiat /\ handling = "ERROR" /\ ShortfallCase
    /\ InventoryBefore > 0
    /\ outcome = RuntimeError

NoSynthetic(scs) == \A i \in 1..Len(scs) : ~scs[i].op.synthetic

\* C6: ZERO_COST synthesis.  On a non-fiat queue with ZERO_COST handling and
\* no buffered fee, a remove with shortfall s > 0 returns the fragments of
\* the resident lots (policy order, whole not_sold each) and then exactly one
\* fragment of amount s of a synthetic Buy with change s, the platform of op
\* and utc_time one second before op; they sum to op.change and the queue is
\* empty afterwards.
C6_ZeroCostSynthesis ==
    (~isFiat /\ handling = "ZERO_COST" /\ pre.buffer_fee = 0 /\ ShortfallCase)
    => LET s == Requested - InventoryBefore
           syn == SyntheticBuy(call.op.utc_time - 1, call.op.platform, s)
       IN  /\ outcome = "ok"
           /\ ret = remove_all(pre.queue).sold_coins \o <<SoldCoin(syn, s)>>
           /\ SumSold(ret) = Requested
           /\ queue = <<>>
           /\ buffer_fee = 0

\* A ZERO_COST remove that used up a resident lot and synthesized the rest.
C6_Witness ==
    /\ ~isFiat /\ handling = "ZERO_COST" /\ pre.buffer_fee = 0 /\ ShortfallCase
    /\ InventoryBefore > 0
    /\ Len(ret) = 2
    /\ ~ret[1].op.synthetic
    /\ ret[2].op.synthetic /\ ret[2].op.utc_time = call.op.utc_time - 1

\* C7: ZERO_COST is recoverable in every reachable state.  On a non-fiat
\* queue with ZERO_COST handling a remove asking for more than the inventory
\* returns normally with fragments summing to exactly op.change.
C7_ZeroCostAlwaysRecovers ==
    (~isFiat /\ handling = "ZERO_COST" /\ ShortfallCase)
    => outcome = "ok" /\ SumSold(ret) = Requested

\* C8: WARNING mode.  On a non-fiat queue with WARNING handling a remove
\* asking for more than the inventory does not raise, returns exactly the
\* fragments of the resident lots (summing to the inventory before the call),
\* creates no synthetic lot, leaves the queue empty and does not add the
\* unfulfilled amount to buffer_fee.
C8_WarningPartial ==
    (~isFiat /\ handling = "WARNING" /\ ShortfallCase)
    => /\ outcome = "ok"
       /\ ret = remove_all(pre.queue).sold_coins
       /\ SumSold(ret) = InventoryBefore
       /\ NoSynthetic(ret)
       /\ queue = <<>>
       /\ buffer_fee = pre.buffer_fee

\* A WARNING-mode partial sale that returned a fragment of a resident lot.
C8_Witness ==
    /\ ~isFiat /\ handling = "WARNING" /\ ShortfallCase
    /\ InventoryBefore > 0
    /\ Len(ret) > 0 /\ SumSold(ret) < Requested
    /\ outcome = "ok"

\* C9: a WARNING-mode partial sale is accepted by the tax evaluation.  With
\* WARNING handling a Sell of a non-fiat coin inside the tax year that asks
\* for more than the inventory is evaluated to completion and one report
\* entry per fulfilled fragment is appended.
C9_WarningSellEvaluated ==
    (~isFiat /\ handling = "WARNING" /\ call.method = "sell"
       /\ in_tax_year(call.op) /\ Requested > InventoryBefore)
    => /\ outcome = "ok"
       /\ Len(tax_report_entries) = Len(pre.entries) + Len(ret)

\* C10: fiat queues never fail on a shortfall.  On the fiat queue a remove
\* asking for more than the inventory does not raise under any handling, it
\* returns the fragments of the resident lots, synthesizes no lot, and
\* sanity_check does not raise on that queue in any reachable state.
C10_FiatNeverFails ==
    /\ (isFiat /\ ShortfallCase)
       => /\ outcome = "ok"
          /\ ret = remove_all(pre.queue).sold_coins
          /\ NoSynthetic(ret)
          /\ queue = <<>>
    /\ isFiat => sanity_check(buffer_fee) = "ok"
    /\ (isFiat /\ call.method = "sanity_check") => outcome = "ok"

\* A shortfall on the fiat queue under ERROR handling that returned the
\* fragment of a resident lot.
C10_Witness ==
    /\ isFiat /\ handling = "ERROR" /\ ShortfallCase
    /\ InventoryBefore > 0
    /\ outcome = "ok" /\ Len(ret) > 0

\* Lots in the order the policy consumes them: oldest first (FIFO), newest
\* first (LIFO).
PolicyOrder(q) == IF principle = "FIFO" THEN q ELSE Reverse(q)

\* What a fee could not take from the lots.
LeftOver == IF Requested > InventoryBefore THEN Requested - InventoryBefore
            ELSE 0

C12_AddSettlesFees ==
    call.method = "add"
    => LET f == pre.buffer_fee
           c == Requested
       IN  /\ outcome = "ok"
           /\ (f > 0 /\ f < c)
              => /\ queue = Append(pre.queue, [op |-> call.op, sold |-> f])
                 /\ buffer_fee = 0
           /\ (f > 0 /\ f >= c)
              => /\ \A i \in 1..Len(queue) : queue[i].op # call.op
                 /\ queue = pre.queue
                 /\ buffer_fee = f - c
           /\ f = 0
              => /\ queue = Append(pre.queue, BalancedOperation(call.op))
                 /\ buffer_fee = 0
           /\ tax_report_entries = pre.entries

\* A buffered fee of one unit settled by a larger acquisition.
C12_Witness ==
    /\ call.method = "add"
    /\ pre.buffer_fee > 0 /\ pre.buffer_fee < Requested
    /\ Len(queue) = 1
    /\ queue[1].op = call.op /\ queue[1].sold = pre.buffer_fee
    /\ buffer_fee = 0

\* C13: sanity_check raises an accounting error (RuntimeError) if and only
\* if buffer_fee is not 0 and the coin is not fiat; it changes neither the
\* queue nor buffer_fee, and called twice in a row it ends the same way both
\* times.
C13_SanityCheck ==
    call.method = "sanity_check"
    => /\ outcome = RuntimeError <=> (pre.buffer_fee # 0 /\ ~isFiat)
       /\ outcome \in {"ok", RuntimeError}
       /\ queue = pre.queue
       /\ buffer_fee = pre.buffer_fee
       /\ pre.method = "sanity_check" => outcome = pre.outcome

\* sanity_check raised twice in a row on a non-fiat queue with a buffered fee.
C13_Witness ==
    /\ call.method = "sanity_check" /\ pre.method = "sanity_check"
    /\ ~isFiat /\ buffer_fee > 0
    /\ outcome = RuntimeError /\ pre.outcome = RuntimeError

\* C14: remove_all drains the queue.  After remove_all the queue is empty;
\* it returned one SoldCoin per lot that was resident, in policy order, each
\* with the lot's not_sold as amount, so the amounts sum to the inventory
\* before the call; buffer_fee is unchanged.
C14_RemoveAllDrains ==
    call.method = "remove_all"
    => LET before == PolicyOrder(pre.queue)
       IN  /\ outcome = "ok"
           /\ queue = <<>>
           /\ Len(ret) = Len(before)
           /\ \A i \in 1..Len(ret) :
                ret[i] = SoldCoin(before[i].op, not_sold(before[i]))
           /\ SumSold(ret) = InventoryBefore
           /\ buffer_fee = pre.buffer_fee

\* remove_all on a LIFO queue of two lots, one of them partly sold.
C14_Witness ==
    /\ call.method = "remove_all" /\ principle = "LIFO"
    /\ Len(pre.queue) = 2 /\ Len(ret) = 2
    /\ \E i \in 1..2 : pre.queue[i].sold > 0
    /\ ret[1].op = pre.queue[2].op
    /\ queue = <<>>

\* C15: depot isolation.  Under MULTI depot mode an operation on platform P
\* changes no queue but the one of P, and a removal on a platform returns
\* only SoldCoins whose lots were acquired on that platform; under SINGLE
\* depot mode every platform maps to the one queue of the coin (so a removal
\* issued on Q can consume a lot acquired on P).
C15_DepotIsolation ==
    /\ depot_mode = "MULTI"
       => /\ DOMAIN _balances \subseteq Platforms
          /\ \A key \in DOMAIN pre.balances :
               key # call.op.platform => _balances[key] = pre.balances[key]
          /\ \A key \in DOMAIN _balances :
               \A i \in 1..Len(_balances[key].queue) :
                   _balances[key].queue[i].op.platform = key
          /\ call.method = "remove"
             => \A i \in 1..Len(ret) : ret[i].op.platform = call.op.platform
    /\ depot_mode = "SINGLE" => DOMAIN _balances \subseteq {"None"}

\* Under SINGLE depot mode a removal issued on one platform consumed a lot
\* acquired on the other.
C15_Witness ==
    /\ depot_mode = "SINGLE" /\ call.method = "remove" /\ outcome = "ok"
    /\ \E i \in 1..Len(ret) :
         /\ ret[i].op.platform # call.op.platform
         /\ ~ret[i].op.synthetic

\* C16: one-year boundary in Taxman._evaluate_sell.  The entry of a fragment
\* whose lot was acquired at T is exempt when the sale is at exactly
\* T + 1 year and taxable one second earlier: is_taxable holds exactly when
\* acquisition time + 1 year > sale time.
C16_SellBoundary ==
    call.method = "evaluate_sell"
    => /\ Len(tax_report_entries) = Len(ret)
       /\ \A i \in 1..Len(tax_report_entries) :
            tax_report_entries[i].is_taxable
            <=> ret[i].op.utc_time + OneYear > call.op.utc_time

\* C17: one-year boundary in the tax rules.  TaxCalculationService reports a
\* fragment as taxable exactly when the acquisition time of its lot plus one
\* year is after the sale (not at sale = acquisition + 1 year, but one
\* second earlier), and the entry carries the acquisition time of the
\* fragment's lot and the time of the sale.
C17_RulesBoundary ==
    call.method = "_create_sell_report_entry"
    => LET Taxable(i) == ret[i].op.utc_time + OneYear > call.op.utc_time
           taxable == {i \in 1..Len(ret) : Taxable(i)}
       IN  /\ Len(tax_report_entries) = Cardinality(taxable)
           /\ \A k \in 1..Len(tax_report_entries) :
                /\ tax_report_entries[k].is_taxable
                /\ tax_report_entries[k].sell_utc_time = call.op.utc_time
                /\ \E i \in taxable :
                     /\ Cardinality({j \in taxable : j <= i}) = k
                     /\ tax_report_entries[k].buy_utc_time
                            = ret[i].op.utc_time
                     /\ tax_report_entries[k].amount = ret[i].sold

\* A sale exactly one year after the first fragment's lot was acquired and
\* one second less than a year after the second's: only the second is
\* reported.
C17_Witness ==
    /\ call.method = "_create_sell_report_entry"
    /\ ret[1].op.utc_time + OneYear = call.op.utc_time
    /\ ret[2].op.utc_time + OneYear = call.op.utc_time + 1
    /\ Len(tax_report_entries) = 1
    /\ tax_report_entries[1].buy_utc_time = ret[2].op.utc_time

\* The last two calls were a successful start_staking_contract and then an
\* end_staking_contract of the same amount on the same platform.
RoundTrip ==
    /\ call.method = "end_staking_contract"
    /\ pre.call.method = "start_staking_contract"
    /\ pre.outcome = "ok"
    /\ call.op.platform = pre.call.op.platform
    /\ call.op.change = pre.call.op.change

\* The StakedCoin entries are, in order, the lots that were offered.
OfOfferedLots(staked_coins, available_coins) ==
    /\ Len(staked_coins) <= Len(available_coins)
    /\ \A i \in 1..Len(staked_coins) :
         /\ staked_coins[i].operation = available_coins[i].op
         /\ staked_coins[i].operation.utc_time = available_coins[i].op.utc_time

RoundTripReturnsTheLots ==
    /\ outcome = "ok"
    /\ get_total_staked(ret) = pre.call.op.change
    /\ OfOfferedLots(ret, pre.call.available_coins)
    /\ \A p \in Platforms :
         \A i \in 1..Len(staking_tracker._active_contracts[p]) :
             staking_tracker._active_contracts[p][i].contract_id # pre.call.contract_id
    /\ get_staked_amount(staking_tracker, call.op.platform)
          = pre.call.staked_before

\* The amount of one acquisition locked in the active contracts of all
\* platforms.
RECURSIVE Locked(_, _)
Locked(operation, platforms) ==
    IF platforms = {} THEN 0
    ELSE LET p == CHOOSE x \in platforms : TRUE
         IN  StakedOf(operation, staking_tracker._active_contracts[p])
             + Locked(operation, platforms \ {p})

\* The acquisitions with coins locked in an active contract.
LockedLots ==
    {staking_tracker._active_contracts[p][i].staked_coins[j].operation :
        <<p, i, j>> \in
            {x \in Platforms \X (1..MaxOps) \X (1..MaxOps) :
                /\ x[2] <= Len(staking_tracker._active_contracts[x[1]])
                /\ x[3] <= Len(staking_tracker._active_contracts[x[1]][x[2]]
                                   .staked_coins)}}

\* C19: after every operation, for every lot the amount sold from it plus
\* the amount of it locked in active contracts is at most the lot's change:
\* a lot with locked coins is still in the balance (a lot leaves it when it
\* is sold out), and what was sold from it leaves room for what is locked.
C19_LockedNotSold ==
    /\ \A lot \in LockedLots : \E i \in 1..Len(queue) : queue[i].op = lot
    /\ \A i \in 1..Len(queue) :
           queue[i].sold + Locked(queue[i].op, Platforms) <= queue[i].op.change

\* sum(bop.not_sold for bop in balance.queue) of the balance of platform
\* before the last call.
PreInventory(platform) ==
    IF BalanceKey(platform) \in DOMAIN pre.balances
    THEN Inventory(pre.balances[BalanceKey(platform)].queue)
    ELSE 0

\* A Sell of a non-fiat coin handed to the manager that exceeds the inventory
\* of its balance.
ManagerShortfall ==
    /\ call.method = "process_operation"
    /\ call.op.kind = "Sell"
    /\ ~isFiat
    /\ PreInventory(call.op.platform) < call.op.change

\* C21: a Sell exceeding the inventory, processed by the BalanceManager, is
\* handled as BalanceConfig.missing_acquisition_handling says: ZERO_COST
\* synthesizes a lot and returns the whole amount, WARNING returns the
\* partial result, and only ERROR raises.
C21_ConfiguredPolicyApplied ==
    ManagerShortfall =>
        /\ missing_acquisition_handling = "ERROR" => outcome = RuntimeError
        /\ missing_acquisition_handling = "ZERO_COST" =>
               /\ outcome = "ok"
               /\ SumSold(ret) = call.op.change
               /\ \E i \in 1..Len(ret) : ret[i].op.synthetic
        /\ missing_acquisition_handling = "WARNING" =>
               /\ outcome = "ok"
               /\ SumSold(ret) = PreInventory(call.op.platform)

\* C22: a Fee of a non-fiat coin handed to the manager while its queue holds
\* less than the fee does not fail the run; the uncovered amount is added to
\* the buffer_fee of that queue.
C22_ManagerBuffersFees ==
    (/\ call.method = "process_operation"
     /\ call.op.kind = "Fee"
     /\ ~isFiat
     /\ PreInventory(call.op.platform) < call.op.change)
    => /\ outcome = "ok"
       /\ _balances[BalanceKey(call.op.platform)].buffer_fee
             = (IF BalanceKey(call.op.platform) \in DOMAIN pre.balances
                THEN pre.balances[BalanceKey(call.op.platform)].buffer_fee
                ELSE 0)
               + call.op.change - PreInventory(call.op.platform)

\* C23: in Taxman._evaluate_taxation_GERMANY a CoinLendEnd or StakingEnd
\* whose amount is not the locked amount of the selected contract, or that
\* finds no active contract, raises and aborts the evaluation.
C23_MismatchAborts ==
    (call.method = "stake_end" /\ call.caught = ValueError)
    => outcome = ValueError

\* C24: an operation the dispatch has no branch for does not raise and
\* leaves the queue, buffer_fee, the staking tracker, the portfolio and the
\* report entries (Taxman), respectively every queue with its buffer_fee and
\* the portfolio (BalanceManager), as they were.
C24_SkippedWithoutEffect ==
    /\ call.method = "skip" =>
           /\ outcome = "ok"
           /\ queue = pre.queue
           /\ buffer_fee = pre.buffer_fee
           /\ staking_tracker = pre.staking_tracker
           /\ tax_report_entries = pre.entries
           /\ single_depot_portfolio = pre.single_depot_portfolio
           /\ multi_depot_portfolio = pre.multi_depot_portfolio
    /\ (/\ call.method = "process_operation"
        /\ call.op.kind \notin {"Buy", "Deposit", "CoinLendEnd", "Sell",
                                "Withdrawal", "CoinLend", "Fee"}) =>
           /\ outcome = "ok"
           /\ ret = <<>>
           /\ _balances = pre.balances
           /\ single_depot_portfolio = pre.single_depot_portfolio
           /\ multi_depot_portfolio = pre.multi_depot_portfolio
           /\ staking_tracker = NewStakingTracker
           /\ tax_report_entries = <<>>

\* The Taxman skips an operation while it holds a lot and an active
\* contract.
C24_Witness ==
    /\ call.method = "skip"
    /\ Len(queue) > 0
    /\ Len(staking_tracker._active_contracts[LendingPlatform]) > 0

\* The operations of a book with utc_time t, in their order.
AtTime(operations, t) ==
    LET T(op) == op.utc_time = t
    IN  SelectSeq(operations, T)

IsPrefix(a, b) == Len(a) <= Len(b) /\ SubSeq(b, 1, Len(a)) = a

\* Operation a comes before b: it is earlier, or of the same time and ahead
\* of b in the input list.
ComesBefore(a, b) ==
    \/ a.utc_time < b.utc_time
    \/ /\ a.utc_time = b.utc_time
       /\ \E i, j \in 1..Len(pre.operations) :
              i < j /\ pre.operations[i] = a /\ pre.operations[j] = b

RECURSIVE Net(_, _)
Net(operations, n) ==
    IF n = 0 THEN 0
    ELSE Net(operations, n - 1)
         + (IF operations[n].kind \in {"Buy", "Deposit", "CoinLendEnd"}
            THEN operations[n].change ELSE 0 - operations[n].change)

\* Every Sell, Withdrawal and CoinLend of the list finds its amount in what
\* the operations before it left on the balance.
Covered(operations) ==
    \A n \in 1..Len(operations) :
        operations[n].kind \in {"Sell", "Withdrawal", "CoinLend"}
            => Net(operations, n) >= 0

LedgerInventory ==
    IF BalanceKey(AcquisitionPlatform) \in DOMAIN _balances
    THEN Inventory(_balances[BalanceKey(AcquisitionPlatform)].queue)
    ELSE 0

\* C26: a ledger whose Sells, Withdrawals and CoinLends are all covered is
\* evaluated to its end without an exception, and the inventory of the
\* queue is then the amount added less the amount removed.
C26_CoveredLedgerCompletes ==
    Covered(sorted(pre.operations)) =>
        /\ outcome = "ok"
        /\ Len(call.fed) = Len(pre.operations) =>
               LedgerInventory = Net(call.fed, Len(call.fed))

\* C20: a Sell processed by BalanceManager.process_operation after coins
\* were lent and returned gives SoldCoins whose operation is an acquisition
\* (with its time), never the CoinLend or CoinLendEnd operation.
C20_LendingKeepsIdentity ==
    (/\ call.method = "process_operation"
     /\ call.op.kind = "Sell"
     /\ outcome = "ok")
    => \A i \in 1..Len(ret) :
           /\ ret[i].op.kind \notin {"CoinLend", "CoinLendEnd"}
           /\ ret[i].op.kind = "Buy"

\* C18 as stated: a successful start_staking_contract followed by
\* end_staking_contract with the same amount for the same (platform, coin)
\* returns StakedCoin entries summing to abs(start_op.change) that are the
\* offered lots in order, the contract is no longer active and
\* get_staked_amount is back to its value before the start.
C18_RoundTripAlways == RoundTrip => RoundTripReturnsTheLots

\* C18 amended: the same, when the end names the contract the start returned,
\* or names none (contract_id 0) and that contract is the only active one of
\* its (platform, coin).
C18_RoundTrip ==
    (RoundTrip /\ (\/ call.contract_id = pre.call.contract_id
                   \/ /\ call.contract_id = 0
                      /\ Len(pre.tracker._active_contracts[call.op.platform]) = 1))
    => RoundTripReturnsTheLots

\* A round trip of a contract over two lots, ended by its id while an older
\* contract of the same platform stays active.
C18_Witness ==
    /\ RoundTrip /\ call.contract_id = pre.call.contract_id
    /\ Len(pre.tracker._active_contracts[call.op.platform]) = 2
    /\ Len(ret) = 2
    /\ outcome = "ok"
    /\ Len(staking_tracker._active_contracts[call.op.platform]) = 1


\* The active contracts of the platform of the last call, before the call.
PreContracts == pre.tracker._active_contracts[call.op.platform]

\* Contract i of PreContracts is the one the last call names: the one with
\* the id, or without an id the one of the smallest start time, the
\* earliest created (lowest counter) among those of that time.
Named(i) ==
    IF call.contract_id # 0
    THEN PreContracts[i].contract_id = call.contract_id
    ELSE \A j \in 1..Len(PreContracts) :
            LET Ti == PreContracts[i].start_operation.utc_time
                Tj == PreContracts[j].start_operation.utc_time
            IN  \/ Ti < Tj
                \/ /\ Ti = Tj
                   /\ PreContracts[i].contract_id <= PreContracts[j].contract_id

\* C27: end_staking_contract without an id ends the active contract of the
\* operation's platform with the smallest start time, the earliest created
\* among equal start times; with an id it ends exactly the contract of that
\* id, or raises when no active contract of the platform has it; the
\* contracts of the other platforms are never touched.
C27_EndSelection ==
    call.method = "end_staking_contract" =>
        /\ \A p \in Platforms \ {call.op.platform} :
               staking_tracker._active_contracts[p]
                   = pre.tracker._active_contracts[p]
        /\ outcome = "ok" =>
               \E i \in 1..Len(PreContracts) :
                   /\ Named(i)
                   /\ staking_tracker._active_contracts[call.op.platform]
                          = RemoveAt(PreContracts, i)
                   /\ ret = PreContracts[i].staked_coins
        /\ (call.contract_id # 0 /\ ~\E i \in 1..Len(PreContracts) : Named(i))
               => outcome = ValueError

\* An end without an id while two contracts of one start time and different
\* lots are active on the platform: the first created is ended.
C27_Witness ==
    /\ call.method = "end_staking_contract"
    /\ call.contract_id = 0
    /\ outcome = "ok"
    /\ Len(PreContracts) = 2
    /\ PreContracts[1].start_operation.utc_time
          = PreContracts[2].start_operation.utc_time
    /\ PreContracts[1].staked_coins # PreContracts[2].staked_coins
    /\ ret = PreContracts[1].staked_coins

\* The last call, an end_staking_contract, has nothing it can end: no
\* active contract on the platform, none of the id it names, or the amount
\* is not the locked total of the contract it names (amounts are whole
\* units, so every difference is more than the tolerance of 1e-8).
NothingToEnd ==
    \/ PreContracts = <<>>
    \/ ~\E i \in 1..Len(PreContracts) : Named(i)
    \/ \E i \in 1..Len(PreContracts) :
          /\ Named(i)
          /\ call.op.change # get_total_staked(PreContracts[i].staked_coins)

\* C28: end_staking_contract raises when the amount is not the locked total
\* of the contract it selects, when the platform has no active contract or
\* when the id is not found, and then the active contracts, their staked
\* coins and flags and get_staked_amount are as before the call; an end of
\* the exact amount is accepted.
C28_EndFailsAtomically ==
    call.method = "end_staking_contract" =>
        /\ outcome = ValueError <=> NothingToEnd
        /\ outcome = ValueError =>
              /\ staking_tracker._active_contracts
                    = pre.tracker._active_contracts
              /\ \A p \in Platforms :
                    get_staked_amount(staking_tracker, p)
                        = get_staked_amount(pre.tracker, p)

\* An end of the wrong amount for the oldest of two active contracts.
C28_Witness ==
    /\ call.method = "end_staking_contract"
    /\ outcome = ValueError
    /\ Len(PreContracts) = 2
    /\ \E i \in 1..2 :
          /\ Named(i)
          /\ call.op.change # get_total_staked(PreContracts[i].staked_coins)
    /\ get_staked_amount(staking_tracker, call.op.platform) > 0

\* The lots of the start operation's coin among those offered to the last
\* call, in the order given.
OfferedOfCoin ==
    LET same(sold_coin) == coin(sold_coin.op) = coin(call.op)
    IN  SelectSeq(call.available_coins, same)

\* Entry k of staked_coins takes from lot k of offered what is left of
\* amount after the lots before it, or the whole lot if that is less.
Greedy(staked_coins, offered, amount) ==
    /\ Len(staked_coins) <= Len(offered)
    /\ \A k \in 1..Len(staked_coins) :
          /\ staked_coins[k].operation = offered[k].op
          /\ staked_coins[k].amount
                = Min(amount - SumSold(SubSeq(offered, 1, k - 1)),
                      offered[k].sold)
          /\ staked_coins[k].amount > 0

\* C29: a successful start_staking_contract adds one contract whose
\* StakedCoin amounts sum to abs(start_op.change) = total_amount, taken
\* greedily from the offered lots of the coin in the order given, lots of
\* another coin skipped and no entry of amount <= 0; when the offered lots
\* of the coin total less than abs(start_op.change) it raises, no contract
\* is added and get_staked_amount is unchanged.
C29_StartAllocation ==
    call.method = "start_staking_contract" =>
        /\ outcome = ValueError <=> SumSold(OfferedOfCoin) < call.op.change
        /\ outcome = "ok" =>
              LET contracts ==
                      staking_tracker._active_contracts[call.op.platform]
                  contract == contracts[Len(contracts)]
              IN  /\ contracts = Append(PreContracts, contract)
                  /\ contract.contract_id = call.contract_id
                  /\ contract.total_amount = call.op.change
                  /\ get_total_staked(contract.staked_coins) = call.op.change
                  /\ Greedy(contract.staked_coins, OfferedOfCoin,
                            call.op.change)
        /\ outcome = ValueError =>
              /\ staking_tracker._active_contracts
                    = pre.tracker._active_contracts
              /\ \A p \in Platforms :
                    get_staked_amount(staking_tracker, p)
                        = get_staked_amount(pre.tracker, p)

\* A start of one unit offered a lot of another coin ahead of a lot of its
\* own: the contract holds the second lot only.
C29_Witness ==
    /\ call.method = "start_staking_contract"
    /\ outcome = "ok"
    /\ call.available_coins[1].op = LotC
    /\ LET contracts == staking_tracker._active_contracts[call.op.platform]
       IN  /\ Len(contracts) = 2
           /\ Len(contracts[2].staked_coins) = 1
           /\ contracts[2].staked_coins[1].operation = LotB

StoredContracts ==
    UNION {{staking_tracker._active_contracts[p][i] :
               i \in 1..Len(staking_tracker._active_contracts[p])} :
           p \in Platforms}

\* C31: every contract stored in the tracker is active; the contract an end
\* returned is stored no longer and its id, which is never handed out
\* again, makes a later end raise; and clear_ended_contracts changes no
\* result of get_active_contracts, get_staked_amount or
\* get_available_amount.
C31_ContractLifecycle ==
    /\ \A contract \in StoredContracts :
          /\ contract.is_active
          /\ contract.contract_id <= staking_tracker._contract_counter
    /\ (call.method = "end_staking_contract" /\ outcome = "ok") =>
          \A i \in 1..Len(PreContracts) :
              Named(i) =>
                  \A contract \in StoredContracts :
                      contract.contract_id # PreContracts[i].contract_id
    /\ (/\ call.method = "end_staking_contract"
        /\ call.contract_id # 0
        /\ \A i \in 1..Len(PreContracts) :
              PreContracts[i].contract_id # call.contract_id)
          => outcome = ValueError /\ ret = <<>>
    /\ LET cleared == clear_ended_contracts(staking_tracker)
       IN  \A p \in Platforms :
              /\ get_active_contracts(cleared, p)
                    = get_active_contracts(staking_tracker, p)
              /\ get_staked_amount(cleared, p)
                    = get_staked_amount(staking_tracker, p)
              /\ \A lot \in {LotA, LotB, LotC} :
                    get_available_amount(cleared, p, lot)
                        = get_available_amount(staking_tracker, p, lot)

\* A contract ended by its id and then named by a second end of the same
\* amount, which raises.
C31_Witness ==
    /\ call.method = "end_staking_contract"
    /\ pre.call.method = "end_staking_contract"
    /\ pre.outcome = "ok"
    /\ call.contract_id # 0
    /\ call.contract_id = pre.call.contract_id
    /\ call.op = [pre.call.op EXCEPT !.utc_time = @ + 1]
    /\ outcome = ValueError
    /\ pre.ret # <<>>

\* The inventory of the queue of a platform's balance key (0 without queue).
KeyInventory(platform) ==
    IF BalanceKey(platform) \in DOMAIN _balances
    THEN Inventory(_balances[BalanceKey(platform)].queue)
    ELSE 0

\* PortfolioManager.get_position(platform, coin); absent reads as 0.
Position(platform) ==
    IF depot_mode = "MULTI" THEN multi_depot_portfolio[platform]
    ELSE single_depot_portfolio

\* C32: while the calls of process_operation return normally (adds,
\* removals and fees, also removals of the home fiat that fall short), the
\* position of every balance key is the sum of not_sold over the lots of the
\* key's queue, and no position is negative.
C32_PortfolioMirrorsQueues ==
    outcome = "ok" =>
        \A p \in Platforms :
            /\ Position(p) = KeyInventory(p)
            /\ Position(p) >= 0

\* The amount stored for a key of a mapping, 0 when the key is absent.
AmountAt(d, key) == IF key \in DOMAIN d THEN d[key] ELSE 0

\* C33: after remove_from_portfolio the position it touched is deleted from
\* the mapping when its amount became exactly 0 and stays stored with any
\* other amount, the other positions staying as they were; get_all_positions
\* lists exactly the stored positions of amount > 0, under their platform
\* in MULTI mode and under platform All in SINGLE mode.
C33_ZeroPositionsDisappear ==
    /\ call.method = "remove_from_portfolio" =>
          LET key == PositionKey(call.platform)
              left == AmountAt(pre.portfolio, key) - call.amount
          IN  /\ IF left = 0 THEN key \notin DOMAIN Portfolio
                 ELSE key \in DOMAIN Portfolio /\ Portfolio[key] = left
              /\ \A k \in (DOMAIN pre.portfolio) \ {key} :
                    k \in DOMAIN Portfolio
                    /\ Portfolio[k] = pre.portfolio[k]
    /\ call.method = "get_all_positions" =>
          /\ \A position \in ret :
                /\ position.amount > 0
                /\ \E k \in DOMAIN Portfolio :
                      /\ Portfolio[k] = position.amount
                      /\ position.platform
                            = (IF depot_mode = "MULTI" THEN k ELSE "All")
          /\ \A k \in DOMAIN Portfolio :
                Portfolio[k] > 0 =>
                    \E position \in ret : position.amount = Portfolio[k]
          /\ Cardinality(ret)
                = Cardinality({k \in DOMAIN Portfolio : Portfolio[k] > 0})

\* In MULTI mode a removal brings one platform's position to exactly 0
\* while another platform keeps its own, and the positions are listed.
C33_Witness ==
    /\ call.method = "get_all_positions"
    /\ depot_mode = "MULTI"
    /\ call.amount > 0
    /\ AmountAt(pre.portfolio, call.platform) = call.amount
    /\ call.platform \notin DOMAIN Portfolio
    /\ Cardinality(ret) = 1

\* What remove(op) on queue q with buffer bf computes on its way: the first
\* _remove, whether the ZERO_COST retry is reached, and the _remove of the
\* retry after the synthetic lot was added.
FirstRemove(q, op) == _remove(q, op.change)

RetryReached(q, bf, op) ==
    LET r == FirstRemove(q, op)
    IN  /\ r.exc = "ok"
        /\ SumSold(r.sold_coins) <= op.change
        /\ r.change # 0
        /\ ~isFiat
        /\ handling = "ZERO_COST"
        /\ _put(r.queue, bf,
                SyntheticBuy(SyntheticTime(op), op.platform, r.change)).exc
              = "ok"

RetryRemove(q, bf, op) ==
    LET r == FirstRemove(q, op)
        a == _put(r.queue, bf,
                  SyntheticBuy(SyntheticTime(op), op.platform, r.change))
    IN  _remove(a.queue, r.change)

\* The fragments remove(op) has collected when it reaches its final
\* validation, were none of them adjusted.
Collected(q, bf, op) ==
    FirstRemove(q, op).sold_coins
    \o (IF RetryReached(q, bf, op) /\ RetryRemove(q, bf, op).exc = "ok"
        THEN RetryRemove(q, bf, op).sold_coins ELSE <<>>)

\* remove(op) on queue q with buffer bf sees none of its three overshoots.
NoOvershoot(q, bf, op) ==
    LET r == FirstRemove(q, op)
        retry == RetryRemove(q, bf, op)
    IN  /\ r.exc = "ok" => SumSold(r.sold_coins) <= op.change
        /\ (RetryReached(q, bf, op) /\ retry.exc = "ok")
              => SumSold(retry.sold_coins) <= r.change
        /\ r.exc = "ok" => SumSold(Collected(q, bf, op)) <= op.change

\* C34: no remove(op) of the run, and no remove of change 0 on the queue as
\* it stands, sees total_sold > op.change after the first _remove,
\* total_additional > unsold_change after the ZERO_COST retry or
\* final_total_sold > op.change at the final validation; the list returned
\* is the collected fragments, never truncated or adjusted.
C34_NoOvershoot ==
    /\ call.method \in {"remove", "sell"} =>
          /\ NoOvershoot(pre.queue, pre.buffer_fee, call.op)
          /\ remove(pre.queue, pre.buffer_fee, call.op).outcome = "ok"
                => ret = Collected(pre.queue, pre.buffer_fee, call.op)
    /\ \A p \in Platforms :
          NoOvershoot(queue, buffer_fee,
                      Operation("Withdrawal", now + 1, p, 0))

\* A remove under ZERO_COST that took part of its amount from two lots and
\* the rest from the synthetic lot of the retry.
C34_Witness ==
    /\ call.method = "remove"
    /\ outcome = "ok"
    /\ RetryReached(pre.queue, pre.buffer_fee, call.op)
    /\ Len(FirstRemove(pre.queue, call.op).sold_coins) = 2
    /\ Len(ret) = 3
    /\ queue = <<>>

\* C35: the fee buffer is never negative, a positive buffer means that the
\* queue holds no lot, and the buffer of a fiat queue is always 0.
C35_FeeBufferInvariant ==
    /\ buffer_fee >= 0
    /\ buffer_fee > 0 => queue = <<>>
    /\ isFiat => buffer_fee = 0

\* A fee larger than what the queue held: the lots were consumed and the
\* rest of the fee is buffered.
C35_Witness ==
    /\ call.method = "remove_fee"
    /\ ~isFiat
    /\ pre.queue # <<>>
    /\ pre.buffer_fee = 0
    /\ queue = <<>>
    /\ buffer_fee = call.op.change - Inventory(pre.queue)
    /\ buffer_fee > 0

\* What a queue holds once the fees it still owes are paid.
NetAmount(q, bf) == Inventory(q) - bf

\* The amounts the last call put into the queue and took out of it; a sell
\* takes the fragments it returns and the fee of the Sell, if it has one.
Inflow == IF call.method = "add" THEN call.op.change ELSE 0

Outflows ==
    IF call.method = "remove" THEN {SumSold(ret)}
    ELSE IF call.method = "remove_fee" THEN {call.op.change}
    ELSE IF call.method = "sell" THEN {SumSold(ret) + fee : fee \in SellFees}
    ELSE {0}

\* The queue calls of the last operation returned normally.
ReturnedNormally ==
    \/ call.method \in {"add", "remove", "remove_fee"} /\ outcome = "ok"
    \/ /\ call.method = "sell"
       /\ remove(pre.queue, pre.buffer_fee, call.op).outcome = "ok"

\* C36: on a non-fiat queue under ERROR or WARNING handling, every add,
\* remove and remove_fee that returns normally changes the sum of not_sold
\* over the resident lots minus buffer_fee by exactly the change added, minus
\* the amount returned in SoldCoin fragments, minus the fee passed; from the
\* empty queue the totals of the claim follow call by call.
C36_Conservation ==
    (~isFiat /\ handling \in {"ERROR", "WARNING"} /\ ReturnedNormally) =>
        \E out \in Outflows :
            NetAmount(queue, buffer_fee)
                = NetAmount(pre.queue, pre.buffer_fee) + Inflow - out

\* An add that pays a buffered fee out of the lot it brings.
C36_Witness ==
    /\ ~isFiat
    /\ handling \in {"ERROR", "WARNING"}
    /\ call.method = "add"
    /\ outcome = "ok"
    /\ pre.buffer_fee > 0
    /\ buffer_fee = 0
    /\ Inventory(queue) = call.op.change - pre.buffer_fee
    /\ Inventory(queue) > 0

(***************************************************************************)
(* The queue fed in non-decreasing utc_time: an operation carries the time *)
(* of the one before it or a later one.  Here `now` counts the operations  *)
(* fed, and the time of the last one is call.op.utc_time.                  *)
(***************************************************************************)
FeedTimes == {call.op.utc_time, call.op.utc_time + 1}

FeedChanges == {0} \cup Amounts

\* One queue call for operation op, the result r of which is
\* [queue, buffer_fee, outcome, ret].
FeedCall(method, op, r) ==
    /\ Running
    /\ now' = now + 1
    /\ call' = [method |-> method, op |-> op]
    /\ Snapshot
    /\ queue' = r.queue
    /\ buffer_fee' = r.buffer_fee
    /\ outcome' = r.outcome
    /\ ret' = r.ret
    /\ UNCHANGED tax_report_entries
    /\ Config
    /\ Rest

AddInOrder ==
    \E c \in FeedChanges, t \in FeedTimes :
        LET op == Operation("Buy", t, AcquisitionPlatform, c)
            a == _put(queue, buffer_fee, op)
        IN  FeedCall("add", op,
                     [queue |-> a.queue, buffer_fee |-> a.buffer_fee,
                      outcome |-> a.exc, ret |-> <<>>])

RemoveInOrder ==
    \E c \in FeedChanges, t \in FeedTimes :
        LET op == Operation("Withdrawal", t, AcquisitionPlatform, c)
        IN  FeedCall("remove", op, remove(queue, buffer_fee, op))

RemoveFeeInOrder ==
    \E c \in Amounts, t \in FeedTimes :
        LET op == Operation("Fee", t, AcquisitionPlatform, c)
            r == _remove_fee(queue, buffer_fee, op.change)
        IN  FeedCall("remove_fee", op,
                     [queue |-> r.queue, buffer_fee |-> r.buffer_fee,
                      outcome |-> r.exc, ret |-> <<>>])

NextOrder == AddInOrder \/ RemoveInOrder \/ RemoveFeeInOrder

SpecOrder == Init /\ [][NextOrder]_vars

\* The lots of q are in non-decreasing utc_time from front to back.
InTimeOrder(q) ==
    \A i, j \in 1..Len(q) :
        i < j => q[i].op.utc_time <= q[j].op.utc_time

\* C37: fed in non-decreasing utc_time, the resident lots are in
\* non-decreasing utc_time from front to back, under every handling; no
\* synthetic lot is resident between two calls, and a remove that reaches
\* the ZERO_COST retry has drained the queue before it adds the synthetic lot.
C37_QueueInTimeOrder ==
    /\ InTimeOrder(queue)
    /\ \A i \in 1..Len(queue) : ~queue[i].op.synthetic
    /\ (call.method = "remove"
        /\ RetryReached(pre.queue, pre.buffer_fee, call.op))
          => FirstRemove(pre.queue, call.op).queue = <<>>

\* A ZERO_COST remove at the very second of the lot it consumes first: the
\* synthetic lot it consumes next is dated before that lot.
C37_Witness ==
    /\ call.method = "remove"
    /\ handling = "ZERO_COST"
    /\ outcome = "ok"
    /\ Len(ret) = 2
    /\ ret[2].op.synthetic
    /\ ret[2].op.utc_time < ret[1].op.utc_time
    /\ queue = <<>>

(***************************************************************************)
(* Taxman in SINGLE depot mode with coins lent and staked on any platform: *)
(* balance_op(op) is the one queue of the coin whatever op.platform is,    *)
(* while the tracker keeps its contracts by op.platform.                   *)
(***************************************************************************)
StakeOnAnyPlatform ==
    \E kind \in {"CoinLend", "Staking"}, c \in Amounts, p \in Platforms :
        LET op == Operation(kind, now + 1, p, c)
            st == Queried(staking_tracker)
            total_in_balance == Inventory(queue)
            already_staked == get_staked_amount(st, op.platform)
            available_for_staking == total_in_balance - already_staked
            picked == CoinsToStake(queue, st, op.platform, c)
            r == start_staking_contract(st, op, picked.coins_to_stake)
            started == /\ available_for_staking >= c
                       /\ picked.remaining_to_stake <= 0
        IN  /\ Running
            /\ now' = op.utc_time
            /\ call' = [method |-> "stake", op |-> op]
            /\ Snapshot
            /\ staking_tracker' = IF started THEN r.tracker ELSE st
            /\ outcome' = IF started THEN r.exc ELSE "ok"
            /\ ret' = <<>>
            /\ UNCHANGED <<queue, buffer_fee, tax_report_entries>>
            /\ Config
            /\ Depots

NextLocking == Add \/ Sell \/ StakeOnAnyPlatform

SpecLocking == Init /\ [][NextLocking]_vars

\* The last operation created a contract.
ContractCreated ==
    /\ call.method = "stake"
    /\ outcome = "ok"
    /\ \E i \in 1..Len(staking_tracker._active_contracts[call.op.platform]) :
           staking_tracker._active_contracts[call.op.platform][i]
               .start_operation = call.op

\* C38: whenever a lending or staking contract is created, every lot with
\* locked coins is in the balance and the amount of it locked across the
\* active contracts of all platforms is at most its not_sold.
C38_NoLotLockedTwice ==
    ContractCreated =>
        /\ \A lot \in LockedLots : \E i \in 1..Len(queue) : queue[i].op = lot
        /\ \A i \in 1..Len(queue) :
               Locked(queue[i].op, Platforms) <= not_sold(queue[i])

\* The last call was a remove, alone or for a Sell, that raised in ERROR
\* mode on a non-fiat queue holding less than the amount asked for.
FailedRemoval ==
    /\ call.method \in {"remove", "sell"}
    /\ handling = "ERROR"
    /\ ~isFiat
    /\ call.op.change > Inventory(pre.queue)
    /\ outcome = RuntimeError

\* C39: a remove that raises in ERROR mode for a shortfall on a non-fiat
\* queue leaves the queue empty (the lots it consumed are not put back) and
\* buffer_fee as it was, and nothing is returned.
C39_FailedRemovalNotRolledBack ==
    FailedRemoval =>
        /\ queue = <<>>
        /\ buffer_fee = pre.buffer_fee
        /\ ret = <<>>

\* A failed remove that had consumed two lots.
C39_Witness ==
    /\ FailedRemoval
    /\ call.method = "remove"
    /\ Len(pre.queue) = 2
    /\ Inventory(pre.queue) > 0
    /\ queue = <<>>

====
